---- MODULE Spec2Model ----
(***************************************************************************)
(* The phase-based load shaper of the locust framework:                    *)
(*   load_shaper/Phase.py               Phase.user_count_at                *)
(*   load_shaper/LoadProfileFactory.py  the fluent profile builder         *)
(*   load_shaper/LoadShapeTest.py       CustomLoadShape.tick (synchronous) *)
(*   simulations/base/base_load_shape.py BaseLoadShape (thread per phase)  *)
(*                                                                         *)
(* Times, durations and spawn rates are Python floats (IEEE-754 binary64). *)
(* The builder's spike duration is the literal 0.1, which binary64 cannot  *)
(* represent, so the model carries binary64 values and rounds every        *)
(* operation to nearest-even exactly as CPython does.                      *)
(***************************************************************************)
EXTENDS Integers, Sequences, FiniteSets, TLC

(***************************************************************************)
(* Natural numbers of arbitrary size: little-endian sequences of limbs in  *)
(* 0..Radix-1 without leading (high) zero limbs; <<>> is zero.             *)
(***************************************************************************)
Radix == 2^15

Pow2(n) == 2^n

RECURSIVE BTrim(_)
BTrim(a) ==
  IF a = <<>> THEN <<>>
  ELSE IF a[Len(a)] = 0 THEN BTrim(SubSeq(a, 1, Len(a) - 1)) ELSE a

RECURSIVE BFromNat(_)
BFromNat(n) == IF n = 0 THEN <<>> ELSE <<n % Radix>> \o BFromNat(n \div Radix)

RECURSIVE BToNat(_)
BToNat(a) == IF a = <<>> THEN 0 ELSE a[1] + Radix * BToNat(Tail(a))

Limb(a, i) == IF i <= Len(a) THEN a[i] ELSE 0

RECURSIVE BAddFrom(_, _, _, _)
BAddFrom(a, b, i, c) ==
  IF i > Len(a) /\ i > Len(b)
  THEN (IF c = 0 THEN <<>> ELSE <<c>>)
  ELSE LET x == Limb(a, i) + Limb(b, i) + c
       IN  <<x % Radix>> \o BAddFrom(a, b, i + 1, x \div Radix)

BAdd(a, b) == BAddFrom(a, b, 1, 0)

\* a - b for a >= b
RECURSIVE BSubFrom(_, _, _, _)
BSubFrom(a, b, i, brw) ==
  IF i > Len(a) THEN <<>>
  ELSE LET x == a[i] - Limb(b, i) - brw
       IN  IF x < 0 THEN <<x + Radix>> \o BSubFrom(a, b, i + 1, 1)
           ELSE <<x>> \o BSubFrom(a, b, i + 1, 0)

BSub(a, b) == BTrim(BSubFrom(a, b, 1, 0))

RECURSIVE BCmpFrom(_, _, _)
BCmpFrom(a, b, i) ==
  IF i = 0 THEN 0
  ELSE IF a[i] < b[i] THEN -1
  ELSE IF a[i] > b[i] THEN 1
  ELSE BCmpFrom(a, b, i - 1)

\* -1, 0, 1 as a < b, a = b, a > b
BCmp(a, b) ==
  IF Len(a) < Len(b) THEN -1
  ELSE IF Len(a) > Len(b) THEN 1
  ELSE BCmpFrom(a, b, Len(a))

\* a * k + c for 0 <= k, c < Radix
RECURSIVE BMulSmallFrom(_, _, _, _)
BMulSmallFrom(a, k, i, c) ==
  IF i > Len(a) THEN (IF c = 0 THEN <<>> ELSE <<c>>)
  ELSE LET x == a[i] * k + c
       IN  <<x % Radix>> \o BMulSmallFrom(a, k, i + 1, x \div Radix)

BMulSmall(a, k, c) == BTrim(BMulSmallFrom(a, k, 1, c))

Zeros(q) == [i \in 1..q |-> 0]

\* a * 2^n
BShl(a, n) ==
  IF a = <<>> THEN <<>>
  ELSE Zeros(n \div 15) \o BMulSmall(a, Pow2(n % 15), 0)

\* floor(a / d) for 0 < d < Radix, from the high limb down
RECURSIVE BDivSmallFrom(_, _, _, _)
BDivSmallFrom(a, d, i, rem) ==
  IF i = 0 THEN <<>>
  ELSE LET x == rem * Radix + a[i]
       IN  BDivSmallFrom(a, d, i - 1, x % d) \o <<x \div d>>

BDivSmall(a, d) == BTrim(BDivSmallFrom(a, d, Len(a), 0))

\* floor(a / 2^n)
BShr(a, n) ==
  IF n \div 15 >= Len(a) THEN <<>>
  ELSE BDivSmall(SubSeq(a, (n \div 15) + 1, Len(a)), Pow2(n % 15))

\* the number of bits of a limb
NatBitLen(n) == CHOOSE k \in 0..15 : n < 2^k /\ (k = 0 \/ 2^(k - 1) <= n)

BBitLen(a) == IF a = <<>> THEN 0 ELSE 15 * (Len(a) - 1) + NatBitLen(a[Len(a)])

BOdd(a) == a # <<>> /\ a[1] % 2 = 1

RECURSIVE BMulFrom(_, _, _)
BMulFrom(a, b, i) ==
  IF i > Len(b) THEN <<>>
  ELSE BAdd(Zeros(i - 1) \o BMulSmall(a, b[i], 0), BMulFrom(a, b, i + 1))

BMul(a, b) == BTrim(BMulFrom(a, b, 1))

\* <<floor(rem * 2^n / b), rem * 2^n mod b>> for rem < b, by restoring
\* division (one quotient bit per step), the n steps split in halves
RECURSIVE BDivSteps(_, _, _)
BDivSteps(rem, b, n) ==
  IF n = 1
  THEN LET r2 == BMulSmall(rem, 2, 0)
       IN  IF BCmp(r2, b) >= 0 THEN <<<<1>>, BSub(r2, b)>> ELSE <<<<>>, r2>>
  ELSE LET h  == n \div 2
           hi == BDivSteps(rem, b, h)
           lo == BDivSteps(hi[2], b, n - h)
       IN  <<BAdd(BShl(hi[1], n - h), lo[1]), lo[2]>>

\* <<floor(a * 2^n / b), sticky>> for a < 2b; sticky is 1 when the division
\* leaves a remainder
BDivShifted(a, b, n) ==
  LET first == BCmp(a, b) >= 0
      r     == BDivSteps(IF first THEN BSub(a, b) ELSE a, b, n)
  IN  <<IF first THEN BAdd(BShl(<<1>>, n), r[1]) ELSE r[1],
        IF r[2] = <<>> THEN 0 ELSE 1>>

(***************************************************************************)
(* binary64 values: (-1)^sgn * man * 2^ex with man of exactly 53 bits, or  *)
(* zero (kept with sgn 0: Python's == and int() do not tell -0.0 from 0.0).*)
(* The values of the model stay far from overflow and the subnormals.      *)
(***************************************************************************)
FZero == [sgn |-> 0, man |-> <<>>, ex |-> 0]

\* round-to-nearest-even of (-1)^s * n * 2^e
FRound(s, n, e) ==
  LET len == BBitLen(n) IN
  IF len = 0 THEN FZero
  ELSE IF len <= 53
  THEN [sgn |-> s, man |-> BShl(n, 53 - len), ex |-> e - (53 - len)]
  ELSE LET sh   == len - 53
           q    == BShr(n, sh)
           r    == BSub(n, BShl(q, sh))
           c    == BCmp(r, BShl(<<1>>, sh - 1))
           up   == c > 0 \/ (c = 0 /\ BOdd(q))
           m    == IF up THEN BAdd(q, <<1>>) ELSE q
       IN  IF BBitLen(m) = 54
           THEN [sgn |-> s, man |-> BShr(m, 1), ex |-> e + sh + 1]
           ELSE [sgn |-> s, man |-> m, ex |-> e + sh]

\* float(n) for a Python int n
FromInt(n) == IF n < 0 THEN FRound(1, BFromNat(-n), 0) ELSE FRound(0, BFromNat(n), 0)

FNeg(x) == IF x.man = <<>> THEN x ELSE [x EXCEPT !.sgn = 1 - x.sgn]

\* -1, 0, 1 as |x| < |y|, |x| = |y|, |x| > |y|
FCmpAbs(x, y) ==
  IF x.man = <<>> THEN (IF y.man = <<>> THEN 0 ELSE -1)
  ELSE IF y.man = <<>> THEN 1
  ELSE IF x.ex < y.ex THEN -1
  ELSE IF x.ex > y.ex THEN 1
  ELSE BCmp(x.man, y.man)

FCmp(x, y) ==
  IF x.sgn # y.sgn THEN (IF x.sgn = 1 THEN -1 ELSE 1)
  ELSE IF x.sgn = 0 THEN FCmpAbs(x, y) ELSE FCmpAbs(y, x)

FLt(x, y) == FCmp(x, y) < 0
FGt(x, y) == FCmp(x, y) > 0

FAdd(x, y) ==
  IF x.man = <<>> THEN y
  ELSE IF y.man = <<>> THEN x
  ELSE LET e  == IF x.ex < y.ex THEN x.ex ELSE y.ex
           nx == BShl(x.man, x.ex - e)
           ny == BShl(y.man, y.ex - e)
           c  == BCmp(nx, ny)
       IN  IF x.sgn = y.sgn THEN FRound(x.sgn, BTrim(BAdd(nx, ny)), e)
           ELSE IF c = 0 THEN FZero
           ELSE IF c > 0 THEN FRound(x.sgn, BSub(nx, ny), e)
           ELSE FRound(y.sgn, BSub(ny, nx), e)

FSub(x, y) == FAdd(x, FNeg(y))

FMul(x, y) ==
  IF x.man = <<>> \/ y.man = <<>> THEN FZero
  ELSE FRound((x.sgn + y.sgn) % 2, BMul(x.man, y.man), x.ex + y.ex)

\* x / y for y # 0: 56 quotient bits and a sticky bit decide the rounding
FDiv(x, y) ==
  IF x.man = <<>> THEN FZero
  ELSE LET qs == BDivShifted(x.man, y.man, 56)
       IN  FRound((x.sgn + y.sgn) % 2, BMulSmall(qs[1], 2, qs[2]), x.ex - y.ex - 57)

\* Python int(x): truncation toward zero
FTrunc(x) ==
  LET mag == IF x.ex >= 0 THEN BToNat(BShl(x.man, x.ex)) ELSE BToNat(BShr(x.man, -x.ex))
  IN  IF x.sgn = 1 THEN -mag ELSE mag


\* the float literal 0.1 (the nearest binary64 to 1/10)
FTenth == FDiv(FromInt(1), FromInt(10))

(***************************************************************************)
(* Exact (unrounded) values (-1)^sgn * man * 2^ex, man of any size: the    *)
(* real numbers the claims speak of, to compare the floats against.        *)
(***************************************************************************)
XInt(n) == IF n < 0 THEN [sgn |-> 1, man |-> BFromNat(-n), ex |-> 0]
           ELSE [sgn |-> 0, man |-> BFromNat(n), ex |-> 0]

XNeg(x) == IF x.man = <<>> THEN x ELSE [x EXCEPT !.sgn = 1 - x.sgn]

XAdd(x, y) ==
  IF x.man = <<>> THEN y
  ELSE IF y.man = <<>> THEN x
  ELSE LET e  == IF x.ex < y.ex THEN x.ex ELSE y.ex
           nx == BShl(x.man, x.ex - e)
           ny == BShl(y.man, y.ex - e)
           c  == BCmp(nx, ny)
       IN  IF x.sgn = y.sgn THEN [sgn |-> x.sgn, man |-> BTrim(BAdd(nx, ny)), ex |-> e]
           ELSE IF c = 0 THEN [sgn |-> 0, man |-> <<>>, ex |-> 0]
           ELSE IF c > 0 THEN [sgn |-> x.sgn, man |-> BSub(nx, ny), ex |-> e]
           ELSE [sgn |-> y.sgn, man |-> BSub(ny, nx), ex |-> e]

XSub(x, y) == XAdd(x, XNeg(y))

XMul(x, y) ==
  IF x.man = <<>> \/ y.man = <<>> THEN [sgn |-> 0, man |-> <<>>, ex |-> 0]
  ELSE [sgn |-> (x.sgn + y.sgn) % 2, man |-> BMul(x.man, y.man), ex |-> x.ex + y.ex]

\* x <= y and x < y over the exact values
XLe(x, y) == LET d == XSub(y, x) IN d.man = <<>> \/ d.sgn = 0
XLt(x, y) == LET d == XSub(y, x) IN d.man # <<>> /\ d.sgn = 0

(***************************************************************************)
(* Bounds of the model.                                                    *)
(***************************************************************************)
MaxPhases == 2
MaxUsers == 1
LongDuration == 4
\* calls of start_phases in one run of the threaded load shape
MaxStarts == 1
\* items the shared queue holds before a worker's put is held back
MaxQueue == 2
\* threads of one start_phases call that are given the processor: those of
\* the first MaxRunning phases; the others are started and never run
MaxRunning == 2

\* user counts handed to the builder; nothing in the code rejects -1
Users == (-1)..MaxUsers
\* durations (seconds, Python ints) handed to the builder; nothing in the
\* code rejects 0 or -1 up front
Durations == {-1, 0, 1, LongDuration}

\* Python's None, and a defined optional value
None == <<>>
Some(v) == <<v>>

(***************************************************************************)
(* load_shaper/Phase.py                                                    *)
(***************************************************************************)
Phase(start_time, duration, user_start, user_end, spawn_rate) ==
  [start_time |-> start_time, duration |-> duration, user_start |-> user_start,
   user_end |-> user_end, spawn_rate |-> spawn_rate]

\* user_count_at with the window's upper bound excluded
user_count_at_open_end(self, t) ==
  IF FLt(t, self.start_time) \/ ~FLt(t, FAdd(self.start_time, self.duration))
  THEN None
  ELSE IF self.duration = FZero
  THEN Some(self.user_end)
  ELSE LET progress == FDiv(FSub(t, self.start_time), self.duration)
       IN  Some(FTrunc(FAdd(FromInt(self.user_start),
                            FMul(FromInt(self.user_end - self.user_start), progress))))

\* user_count_at that answers user_start for a phase without duration
user_count_at_instant_start(self, t) ==
  IF FLt(t, self.start_time) \/ FGt(t, FAdd(self.start_time, self.duration))
  THEN None
  ELSE IF self.duration = FZero
  THEN Some(self.user_start)
  ELSE LET progress == FDiv(FSub(t, self.start_time), self.duration)
       IN  Some(FTrunc(FAdd(FromInt(self.user_start),
                            FMul(FromInt(self.user_end - self.user_start), progress))))

user_count_at(self, t) ==
  IF FLt(t, self.start_time) \/ FGt(t, FAdd(self.start_time, self.duration))
  THEN None
  ELSE IF self.duration = FZero
  THEN Some(self.user_end)
  ELSE LET progress == FDiv(FSub(t, self.start_time), self.duration)
       IN  Some(FTrunc(FAdd(FromInt(self.user_start),
                            FMul(FromInt(self.user_end - self.user_start), progress))))

(***************************************************************************)
(* The class constants of CustomLoadShape (load_shaper/LoadShapeTest.py).  *)
(***************************************************************************)
INITIAL_SPIKE_USERS == 10
RAMP_UP_USERS == 20
RAMP_UP_DURATION == 10
STEADY_USERS == 5
STEADY_DURATION == 5
STRESS_START_USERS == 5
STRESS_END_USERS == 15
STRESS_DURATION == 10

Config(a, b, bd, c, cd, e, f, fd) ==
  [initial_spike_users |-> a, ramp_up_users |-> b, ramp_up_duration |-> bd,
   steady_users |-> c, steady_duration |-> cd, stress_start_users |-> e,
   stress_end_users |-> f, stress_duration |-> fd]

ClassConfig ==
  Config(INITIAL_SPIKE_USERS, RAMP_UP_USERS, RAMP_UP_DURATION, STEADY_USERS,
         STEADY_DURATION, STRESS_START_USERS, STRESS_END_USERS, STRESS_DURATION)

\* other settings of the same eight constants
ShapeUsers == 0..MaxUsers
ShapeDurations == {1, LongDuration}
SmallConfigs ==
  {Config(a, b, bd, c, cd, e, f, fd) :
     a \in ShapeUsers, b \in ShapeUsers, bd \in ShapeDurations, c \in ShapeUsers,
     cd \in ShapeDurations, e \in ShapeUsers, f \in ShapeUsers, fd \in ShapeDurations}

(***************************************************************************)
(* State.                                                                  *)
(*   phases, current_time   LoadProfileFactory's fields; build() returns   *)
(*                          the list object itself, so the load shape's    *)
(*                          self.phases is this same list                  *)
(*   built                  build() has returned                           *)
(*   raised                 the exception the last call raised, or "none"  *)
(*   called                 the last call made on the factory, on the list *)
(*                          it built or on the load shape holding it:      *)
(*                          "spike", ..., "build", "tick" (the synchronous *)
(*                          CustomLoadShape.tick), "user_count_at" (a      *)
(*                          direct call on phases[1]), or "none"           *)
(*   run_time               the time that call was made with:              *)
(*                          get_run_time() for tick, the argument t for    *)
(*                          user_count_at, 0 for a call that takes none    *)
(*   result                 what that call returned if it was a tick or a  *)
(*                          user_count_at, else None; or what the last     *)
(*                          BaseLoadShape.tick returned                    *)
(*   config                 the constants a load shape's __init__ reads    *)
(* and, of simulations/base/base_load_shape.py,                            *)
(*   stop_event             self._stop_event is set                        *)
(*   active_threads         self._active_threads, a list of thread ids     *)
(*   thread_queue           self._thread_queue, oldest item first          *)
(*   phase_start_time       self._phase_start_time                         *)
(*   now                    what time.time() returns                       *)
(*   worker                 where each thread running _execute_phase is;   *)
(*                          worker[<<g, i>>] is the thread the g-th call   *)
(*                          of start_phases made with thread_id i          *)
(*   lock                   the worker holding self._lock, or NoThread     *)
(*   main                   where the thread calling start_phases,         *)
(*                          stop_phases and tick is: the statement (at),   *)
(*                          the loop's position (i), the copy stop_phases  *)
(*                          loops over (ids) and the reading of the clock  *)
(*                          it took last (time)                            *)
(*   helper                 where the thread stop_phases made last and is  *)
(*                          joining is                                     *)
(*   late                   the threads of stop_phases whose join timed    *)
(*                          out and that have not ended, oldest first:     *)
(*                          where each is (at) and what its thread_id is   *)
(*                          (id)                                           *)
(*   starts                 how often start_phases has been called         *)
(*   phase_lock             the worker holding self._phase_lock, or        *)
(*                          NoThread                                       *)
(*   clock_read             what time.time() returned to that worker       *)
(*   item                   the tuple that worker has built and not yet    *)
(*                          put on the queue, or None                      *)
(* and, of the simulated user of example_user.py and of                    *)
(* simulations/core/DummyJsonLoginCurrentUser_Flow.py,                     *)
(*   validations            ResponseValidator._validations                 *)
(*   custom_validators      ResponseValidator._custom_validators           *)
(*   results                the list the last validate() returned, empty   *)
(*                          if it raised                                   *)
(*   response               the response the last execute() returned or    *)
(*                          the last validate() was given                  *)
(*   builder                the fields of the user's RequestBuilder        *)
(*   sent                   the request the last execute() handed to the   *)
(*                          HTTP client                                    *)
(***************************************************************************)
VARIABLES phases, current_time, built, raised, called, run_time, result, config,
          stop_event, active_threads, thread_queue, phase_start_time, now,
          worker, lock, phase_lock, clock_read, item, main, helper, late, starts,
          validations, custom_validators, results, response, builder, sent

vars == <<phases, current_time, built, raised, called, run_time, result, config,
          stop_event, active_threads, thread_queue, phase_start_time, now,
          worker, lock, phase_lock, clock_read, item, main, helper, late, starts,
          validations, custom_validators, results, response, builder, sent>>

\* the fields of the simulated user's validator and request builder
user_vars == <<validations, custom_validators, results, response, builder, sent>>

\* the fields of the threaded load shape and its threads
runner_vars == <<stop_event, active_threads, thread_queue, phase_start_time, now,
                 worker, lock, phase_lock, clock_read, item, main, helper, late, starts>>

(***************************************************************************)
(* load_shaper/LoadProfileFactory.py                                       *)
(***************************************************************************)
FactoryInit ==
  /\ phases = <<>>
  /\ current_time = FZero
  /\ built = FALSE
  /\ raised = "none"

\* spike that appends its phase and leaves the cursor where it was
spike_keeps_cursor(users) ==
  /\ phases' = Append(phases, Phase(current_time, FTenth, users, users, FromInt(users)))
  /\ raised' = "none"
  /\ called' = "spike" /\ run_time' = FZero /\ result' = None
  /\ UNCHANGED <<current_time, built, config>>
  /\ UNCHANGED runner_vars
  /\ UNCHANGED user_vars

\* spike whose phase has no duration at all
spike_instant(users) ==
  /\ phases' = Append(phases, Phase(current_time, FZero, users, users, FromInt(users)))
  /\ current_time' = FAdd(current_time, FZero)
  /\ raised' = "none"
  /\ called' = "spike" /\ run_time' = FZero /\ result' = None
  /\ UNCHANGED <<built, config>>
  /\ UNCHANGED runner_vars
  /\ UNCHANGED user_vars

spike(users) ==
  /\ phases' = Append(phases, Phase(current_time, FTenth, users, users, FromInt(users)))
  /\ current_time' = FAdd(current_time, FTenth)
  /\ raised' = "none"
  /\ called' = "spike" /\ run_time' = FZero /\ result' = None
  /\ UNCHANGED <<built, config>>
  /\ UNCHANGED runner_vars
  /\ UNCHANGED user_vars

\* ramp_up that starts every ramp at 0 users
ramp_up_from_zero(to_users, duration) ==
  LET from_users == 0 IN
  /\ IF duration = 0
     THEN /\ raised' = "ZeroDivisionError"
          /\ UNCHANGED <<phases, current_time>>
     ELSE /\ phases' = Append(phases,
                 Phase(current_time, FromInt(duration), from_users, to_users,
                       FDiv(FromInt(to_users - from_users), FromInt(duration))))
          /\ current_time' = FAdd(current_time, FromInt(duration))
          /\ raised' = "none"
  /\ called' = "ramp_up" /\ run_time' = FZero /\ result' = None
  /\ UNCHANGED <<built, config>>
  /\ UNCHANGED runner_vars
  /\ UNCHANGED user_vars

\* ramp_up whose spawn rate is to_users / duration
ramp_up_rate_to(to_users, duration) ==
  LET from_users == IF phases # <<>> THEN phases[Len(phases)].user_end ELSE 0 IN
  /\ IF duration = 0
     THEN /\ raised' = "ZeroDivisionError"
          /\ UNCHANGED <<phases, current_time>>
     ELSE /\ phases' = Append(phases,
                 Phase(current_time, FromInt(duration), from_users, to_users,
                       FDiv(FromInt(to_users), FromInt(duration))))
          /\ current_time' = FAdd(current_time, FromInt(duration))
          /\ raised' = "none"
  /\ called' = "ramp_up" /\ run_time' = FZero /\ result' = None
  /\ UNCHANGED <<built, config>>
  /\ UNCHANGED runner_vars
  /\ UNCHANGED user_vars

ramp_up(to_users, duration) ==
  LET from_users == IF phases # <<>> THEN phases[Len(phases)].user_end ELSE 0 IN
  /\ IF duration = 0
     THEN /\ raised' = "ZeroDivisionError"
          /\ UNCHANGED <<phases, current_time>>
     ELSE /\ phases' = Append(phases,
                 Phase(current_time, FromInt(duration), from_users, to_users,
                       FDiv(FromInt(to_users - from_users), FromInt(duration))))
          /\ current_time' = FAdd(current_time, FromInt(duration))
          /\ raised' = "none"
  /\ called' = "ramp_up" /\ run_time' = FZero /\ result' = None
  /\ UNCHANGED <<built, config>>
  /\ UNCHANGED runner_vars
  /\ UNCHANGED user_vars

\* steady_users that takes its spawn rate from the user count, as spike does
steady_users_rate_users(users, duration) ==
  /\ phases' = Append(phases,
         Phase(current_time, FromInt(duration), users, users, FromInt(users)))
  /\ current_time' = FAdd(current_time, FromInt(duration))
  /\ raised' = "none"
  /\ called' = "steady_users" /\ run_time' = FZero /\ result' = None
  /\ UNCHANGED <<built, config>>
  /\ UNCHANGED runner_vars
  /\ UNCHANGED user_vars

\* steady_users that appends its phase and leaves the cursor where it was
steady_users_keeps_cursor(users, duration) ==
  /\ phases' = Append(phases,
         Phase(current_time, FromInt(duration), users, users, FromInt(1)))
  /\ raised' = "none"
  /\ called' = "steady_users" /\ run_time' = FZero /\ result' = None
  /\ UNCHANGED <<current_time, built, config>>
  /\ UNCHANGED runner_vars
  /\ UNCHANGED user_vars

steady_users(users, duration) ==
  /\ phases' = Append(phases,
         Phase(current_time, FromInt(duration), users, users, FromInt(1)))
  /\ current_time' = FAdd(current_time, FromInt(duration))
  /\ raised' = "none"
  /\ called' = "steady_users" /\ run_time' = FZero /\ result' = None
  /\ UNCHANGED <<built, config>>
  /\ UNCHANGED runner_vars
  /\ UNCHANGED user_vars

\* stress_ramp that starts where the phase before it ended, as ramp_up does
stress_ramp_chained(from_users, to_users, duration) ==
  LET chained == IF phases # <<>> THEN phases[Len(phases)].user_end ELSE from_users IN
  /\ IF duration = 0
     THEN /\ raised' = "ZeroDivisionError"
          /\ UNCHANGED <<phases, current_time>>
     ELSE /\ phases' = Append(phases,
                 Phase(current_time, FromInt(duration), chained, to_users,
                       FDiv(FromInt(to_users - chained), FromInt(duration))))
          /\ current_time' = FAdd(current_time, FromInt(duration))
          /\ raised' = "none"
  /\ called' = "stress_ramp" /\ run_time' = FZero /\ result' = None
  /\ UNCHANGED <<built, config>>
  /\ UNCHANGED runner_vars
  /\ UNCHANGED user_vars

\* stress_ramp that lets 0.1 seconds pass before its phase starts
stress_ramp_after_pause(from_users, to_users, duration) ==
  /\ IF duration = 0
     THEN /\ raised' = "ZeroDivisionError"
          /\ UNCHANGED <<phases, current_time>>
     ELSE /\ phases' = Append(phases,
                 Phase(FAdd(current_time, FTenth), FromInt(duration), from_users, to_users,
                       FDiv(FromInt(to_users - from_users), FromInt(duration))))
          /\ current_time' = FAdd(FAdd(current_time, FTenth), FromInt(duration))
          /\ raised' = "none"
  /\ called' = "stress_ramp" /\ run_time' = FZero /\ result' = None
  /\ UNCHANGED <<built, config>>
  /\ UNCHANGED runner_vars
  /\ UNCHANGED user_vars

stress_ramp(from_users, to_users, duration) ==
  /\ IF duration = 0
     THEN /\ raised' = "ZeroDivisionError"
          /\ UNCHANGED <<phases, current_time>>
     ELSE /\ phases' = Append(phases,
                 Phase(current_time, FromInt(duration), from_users, to_users,
                       FDiv(FromInt(to_users - from_users), FromInt(duration))))
          /\ current_time' = FAdd(current_time, FromInt(duration))
          /\ raised' = "none"
  /\ called' = "stress_ramp" /\ run_time' = FZero /\ result' = None
  /\ UNCHANGED <<built, config>>
  /\ UNCHANGED runner_vars
  /\ UNCHANGED user_vars

build ==
  /\ built' = TRUE
  /\ raised' = "none"
  /\ called' = "build" /\ run_time' = FZero /\ result' = None
  /\ UNCHANGED <<phases, current_time, config>>
  /\ UNCHANGED runner_vars
  /\ UNCHANGED user_vars

(***************************************************************************)
(* load_shaper/LoadShapeTest.py, UnitTest.py: CustomLoadShape.tick         *)
(***************************************************************************)
RECURSIVE tick_scan(_, _, _)
tick_scan(ps, t, i) ==
  IF i > Len(ps) THEN None
  ELSE LET c == user_count_at(ps[i], t)
       IN  IF c # None THEN <<c[1], ps[i].spawn_rate>> ELSE tick_scan(ps, t, i + 1)

\* the return value of tick() when get_run_time() is t
tick_value(ps, t) == tick_scan(ps, t, 1)

\* tick that keeps the pair it returned last and returns it again
tick_keeps_last(t) ==
  /\ built
  /\ called' = "tick"
  /\ run_time' = t
  /\ result' = IF called = "tick" /\ result # None THEN result
               ELSE tick_value(phases, t)
  /\ raised' = "none"
  /\ UNCHANGED <<phases, current_time, built, config>>
  /\ UNCHANGED runner_vars
  /\ UNCHANGED user_vars

tick(t) ==
  /\ built
  /\ called' = "tick"
  /\ run_time' = t
  /\ result' = tick_value(phases, t)
  /\ raised' = "none"
  /\ UNCHANGED <<phases, current_time, built, config>>
  /\ UNCHANGED runner_vars
  /\ UNCHANGED user_vars

\* a direct call phases[1].user_count_at(t)
call_user_count_at(t) ==
  /\ phases # <<>>
  /\ called' = "user_count_at"
  /\ run_time' = t
  /\ result' = user_count_at(phases[1], t)
  /\ raised' = "none"
  /\ UNCHANGED <<phases, current_time, built, config>>
  /\ UNCHANGED runner_vars
  /\ UNCHANGED user_vars

(***************************************************************************)
(* The times the environment hands in.                                     *)
(***************************************************************************)
Epsilon == FRound(0, <<1>>, -30)
JustAbove(x) == FAdd(x, Epsilon)
JustBelow(x) == FSub(x, Epsilon)
EndTime(p) == FAdd(p.start_time, p.duration)

\* values of get_run_time(): the phase boundaries, a moment after the last
\* one, and 0, 0.1, 0.1 + Epsilon
RunTimes(ps) ==
  {FZero, FTenth, JustAbove(FTenth)}
    \cup {ps[i].start_time : i \in 1..Len(ps)}
    \cup {EndTime(ps[i]) : i \in 1..Len(ps)}
    \cup {JustAbove(EndTime(ps[i])) : i \in {Len(ps)} \ {0}}

\* arguments of a direct user_count_at call on phase p: its bounds, a moment
\* outside either, and three points inside
CountTimes(p) ==
  {p.start_time, EndTime(p), JustBelow(p.start_time), JustAbove(EndTime(p))}
    \cup {FAdd(p.start_time, FDiv(FMul(FromInt(k), p.duration), FromInt(4))) : k \in 1..3}

(***************************************************************************)
(* simulations/base/base_load_shape.py: BaseLoadShape.                     *)
(*                                                                         *)
(* __init__ runs the same chain of five builder calls as CustomLoadShape   *)
(* on the integers of config/LoadShaperConfig.py, so self.phases has       *)
(* ChainLength phases and start_phases makes the thread ids                *)
(* 0..ChainLength-1.                                                       *)
(***************************************************************************)
ChainLength == 4
ThreadIds == 0..(ChainLength - 1)
\* the workers that are given the processor
Workers == (1..MaxStarts) \X (0..(MaxRunning - 1))
\* a stopped shape may be started once more
MaxRestarts == MaxStarts + 1
AllWorkers == (1..MaxRestarts) \X ThreadIds
NoThread == <<>>

\* the setting of LoadShaperConfig the threaded shape is run with: phases of
\* 0.1, 1, LongDuration / 2 and LongDuration seconds
RunnerConfigs ==
  {Config(MaxUsers, MaxUsers, 1, MaxUsers, LongDuration \div 2, MaxUsers, MaxUsers,
          LongDuration)}

\* the values time.time() takes, in tenths of a second
ClockTenths == {0, 1} \cup {11 * k : k \in 1..MaxStarts}
Time(k) == FDiv(FromInt(k), FromInt(10))
ClockReadings == {Time(k) : k \in ClockTenths}

Contains(list, x) == \E k \in 1..Len(list) : list[k] = x

\* list.remove(x) on a list that holds x: the first x goes
RemoveFirst(list, x) ==
  LET k == CHOOSE k \in 1..Len(list) :
             list[k] = x /\ \A j \in 1..(k - 1) : list[j] # x
  IN  SubSeq(list, 1, k - 1) \o SubSeq(list, k + 1, Len(list))

Idle == [at |-> "idle", i |-> 0, ids |-> <<>>, time |-> FZero]

\* the thread_id of a thread of stop_phases while the call that made it runs:
\* the lambda reads the loop variable of that call
LoopVariable == -1

\* the thread management fields as __init__ leaves them
BaseLoadShapeFields ==
  /\ stop_event = FALSE
  /\ active_threads = <<>>
  /\ thread_queue = <<>>
  /\ now = Time(0)
  /\ phase_start_time = now
  /\ worker = [w \in AllWorkers |-> "unborn"]
  /\ lock = NoThread
  /\ phase_lock = NoThread
  /\ clock_read = FZero
  /\ item = None
  /\ main = Idle
  /\ helper = "none"
  /\ late = <<>>
  /\ starts = 0

PhaseOf(w) == phases[w[2] + 1]

\* _execute_phase, the while condition: not self._stop_event.is_set()
\* the while condition taken to be true whatever the flag says
execute_phase_test_unconditional(w) ==
  /\ worker[w] = "test"
  /\ worker' = [worker EXCEPT ![w] = "poll"]
  /\ UNCHANGED <<phases, current_time, built, raised, called, run_time, result, config>>
  /\ UNCHANGED <<phase_lock, clock_read, item, late>>
  /\ UNCHANGED user_vars
  /\ UNCHANGED <<stop_event, active_threads, thread_queue, phase_start_time, now,
                 lock, main, helper, starts>>

execute_phase_test(w) ==
  /\ worker[w] = "test"
  /\ worker' = [worker EXCEPT ![w] = IF stop_event THEN "stopped" ELSE "poll"]
  /\ UNCHANGED <<phases, current_time, built, raised, called, run_time, result, config>>
  /\ UNCHANGED <<phase_lock, clock_read, item, late>>
  /\ UNCHANGED user_vars
  /\ UNCHANGED <<stop_event, active_threads, thread_queue, phase_start_time, now,
                 lock, main, helper, starts>>

\* _execute_phase: with self._phase_lock is entered and time.time() is
\* evaluated, the left operand of the subtraction
execute_phase_clock(w) ==
  /\ worker[w] = "poll"
  /\ phase_lock = NoThread
  /\ phase_lock' = w
  /\ clock_read' = now
  /\ UNCHANGED item
  /\ worker' = [worker EXCEPT ![w] = "block"]
  /\ UNCHANGED <<phases, current_time, built, raised, called, run_time, result, config>>
  /\ UNCHANGED user_vars
  /\ UNCHANGED <<stop_event, active_threads, thread_queue, phase_start_time, now,
                 lock, main, helper, late, starts>>

\* the body of the loop without its break on current_time > phase.duration
execute_phase_poll_no_break(w) ==
  LET phase        == PhaseOf(w)
      elapsed      == FSub(clock_read, phase_start_time)
      user_count   == user_count_at(phase, elapsed)
  IN
  /\ worker[w] = "block"
  /\ clock_read' = FZero
  /\ IF user_count # None
     THEN /\ worker' = [worker EXCEPT ![w] = "put"]
          /\ item' = Some(<<user_count[1], phase.spawn_rate>>)
          /\ UNCHANGED phase_lock
     ELSE /\ worker' = [worker EXCEPT ![w] = "sleep"]
          /\ item' = None
          /\ phase_lock' = NoThread
  /\ UNCHANGED <<phases, current_time, built, raised, called, run_time, result, config>>
  /\ UNCHANGED user_vars
  /\ UNCHANGED <<stop_event, active_threads, thread_queue, phase_start_time, now,
                 lock, main, helper, late, starts>>

\* _execute_phase, the with block up to the put: self._phase_start_time is
\* read, with no lock start_phases would take, and subtracted from the
\* reading of the clock; the loop breaks and gives _phase_lock back, or
\* user_count_at is asked and, unless it says None, the tuple is built
execute_phase_poll(w) ==
  LET phase        == PhaseOf(w)
      elapsed      == FSub(clock_read, phase_start_time)
      user_count   == user_count_at(phase, elapsed)
  IN
  /\ worker[w] = "block"
  /\ clock_read' = FZero
  /\ IF FGt(elapsed, phase.duration)
     THEN /\ worker' = [worker EXCEPT ![w] = "elapsed"]
          /\ item' = None
          /\ phase_lock' = NoThread
     ELSE IF user_count # None
          THEN /\ worker' = [worker EXCEPT ![w] = "put"]
               /\ item' = Some(<<user_count[1], phase.spawn_rate>>)
               /\ UNCHANGED phase_lock
          ELSE /\ worker' = [worker EXCEPT ![w] = "sleep"]
               /\ item' = None
               /\ phase_lock' = NoThread
  /\ UNCHANGED <<phases, current_time, built, raised, called, run_time, result, config>>
  /\ UNCHANGED user_vars
  /\ UNCHANGED <<stop_event, active_threads, thread_queue, phase_start_time, now,
                 lock, main, helper, late, starts>>

\* _execute_phase: self._thread_queue.put(...) under the queue's own mutex,
\* after which the with block ends and _phase_lock is given back
execute_phase_put(w) ==
  /\ worker[w] = "put"
  /\ Len(thread_queue) < MaxQueue
  /\ thread_queue' = Append(thread_queue, item[1])
  /\ item' = None
  /\ phase_lock' = NoThread
  /\ worker' = [worker EXCEPT ![w] = "sleep"]
  /\ UNCHANGED <<phases, current_time, built, raised, called, run_time, result, config>>
  /\ UNCHANGED user_vars
  /\ UNCHANGED <<stop_event, active_threads, phase_start_time, now, clock_read,
                 lock, main, helper, late, starts>>

\* an exception raised inside the with block leaving _phase_lock taken
execute_phase_except_keeps_lock(w) ==
  /\ worker[w] \in {"block", "put"}
  /\ worker' = [worker EXCEPT ![w] = "caught"]
  /\ phase_lock' = w
  /\ clock_read' = FZero
  /\ item' = None
  /\ UNCHANGED late
  /\ UNCHANGED <<phases, current_time, built, raised, called, run_time, result, config>>
  /\ UNCHANGED <<stop_event, active_threads, thread_queue, phase_start_time, now,
                 lock, main, helper, starts>>
  /\ UNCHANGED user_vars

\* _execute_phase, except Exception: something in the with block raised; the
\* with statement gives _phase_lock back and the handler prints
execute_phase_except(w) ==
  /\ worker[w] \in {"block", "put"}
  /\ worker' = [worker EXCEPT ![w] = "caught"]
  /\ phase_lock' = NoThread
  /\ clock_read' = FZero
  /\ item' = None
  /\ UNCHANGED late
  /\ UNCHANGED <<phases, current_time, built, raised, called, run_time, result, config>>
  /\ UNCHANGED <<stop_event, active_threads, thread_queue, phase_start_time, now,
                 lock, main, helper, starts>>
  /\ UNCHANGED user_vars

\* time.time() moves on; every time.sleep(0.1) under way returns, the
\* readings being at least 0.1 apart
time_passes ==
  /\ built
  /\ \E t \in ClockReadings :
       /\ FGt(t, now)
       /\ now' = t
  /\ worker' = [w \in AllWorkers |-> IF worker[w] = "sleep" THEN "test" ELSE worker[w]]
  /\ UNCHANGED <<phases, current_time, built, raised, called, run_time, result, config>>
  /\ UNCHANGED <<phase_lock, clock_read, item, late>>
  /\ UNCHANGED user_vars
  /\ UNCHANGED <<stop_event, active_threads, thread_queue, phase_start_time,
                 lock, main, helper, starts>>

\* _execute_phase, finally: with self._lock, if thread_id in self._active_threads
execute_phase_finally(w) ==
  /\ worker[w] \in {"stopped", "elapsed", "caught"}
  /\ lock = NoThread
  /\ IF Contains(active_threads, w[2])
     THEN /\ worker' = [worker EXCEPT ![w] = "remove"]
          /\ lock' = w
     ELSE /\ worker' = [worker EXCEPT ![w] = "done"]
          /\ UNCHANGED lock
  /\ UNCHANGED <<phases, current_time, built, raised, called, run_time, result, config>>
  /\ UNCHANGED <<phase_lock, clock_read, item, late>>
  /\ UNCHANGED user_vars
  /\ UNCHANGED <<stop_event, active_threads, thread_queue, phase_start_time, now,
                 main, helper, starts>>

\* _execute_phase, finally: self._active_threads.remove(thread_id), which
\* raises ValueError out of the thread if a helper of stop_phases took the id
\* meanwhile; the with statement releases the lock either way
execute_phase_remove(w) ==
  /\ worker[w] = "remove"
  /\ IF Contains(active_threads, w[2])
     THEN /\ active_threads' = RemoveFirst(active_threads, w[2])
          /\ worker' = [worker EXCEPT ![w] = "done"]
     ELSE /\ worker' = [worker EXCEPT ![w] = "ValueError"]
          /\ UNCHANGED active_threads
  /\ lock' = NoThread
  /\ UNCHANGED <<phases, current_time, built, raised, called, run_time, result, config>>
  /\ UNCHANGED <<phase_lock, clock_read, item, late>>
  /\ UNCHANGED user_vars
  /\ UNCHANGED <<stop_event, thread_queue, phase_start_time, now, main, helper, starts>>

\* start_phases: self._stop_event.clear()
start_phases ==
  /\ built
  /\ main.at = "idle"
  /\ stop_event' = FALSE
  /\ starts' = starts + 1
  /\ main' = [Idle EXCEPT !.at = "start_time"]
  /\ UNCHANGED <<phases, current_time, built, raised, called, run_time, result, config>>
  /\ UNCHANGED <<phase_lock, clock_read, item, late>>
  /\ UNCHANGED user_vars
  /\ UNCHANGED <<active_threads, thread_queue, phase_start_time, now, worker, lock, helper>>

\* start_phases: time.time() is evaluated, the right side of
\* self._phase_start_time = time.time()
start_phases_clock ==
  /\ main.at = "start_time"
  /\ main' = [main EXCEPT !.at = "store", !.time = now]
  /\ UNCHANGED <<phases, current_time, built, raised, called, run_time, result, config>>
  /\ UNCHANGED <<phase_lock, clock_read, item, late>>
  /\ UNCHANGED user_vars
  /\ UNCHANGED <<stop_event, active_threads, thread_queue, phase_start_time, now, worker,
                 lock, helper, starts>>

\* start_phases: the reading is stored in self._phase_start_time, with no
\* lock held
start_phases_time ==
  /\ main.at = "store"
  /\ phase_start_time' = main.time
  /\ main' = [main EXCEPT !.at = "thread", !.time = FZero]
  /\ UNCHANGED <<phases, current_time, built, raised, called, run_time, result, config>>
  /\ UNCHANGED <<phase_lock, clock_read, item, late>>
  /\ UNCHANGED user_vars
  /\ UNCHANGED <<stop_event, active_threads, thread_queue, now, worker, lock, helper, starts>>

\* start_phases starting every thread on the first phase
start_phases_thread_first ==
  /\ main.at = "thread"
  /\ worker' = [worker EXCEPT ![<<starts, 0>>] = "test"]
  /\ main' = [main EXCEPT !.at = "append"]
  /\ UNCHANGED <<phases, current_time, built, raised, called, run_time, result, config>>
  /\ UNCHANGED <<phase_lock, clock_read, item, late>>
  /\ UNCHANGED user_vars
  /\ UNCHANGED <<stop_event, active_threads, thread_queue, phase_start_time, now,
                 lock, helper, starts>>

\* start_phases: thread.start() for phase main.i
start_phases_thread ==
  /\ main.at = "thread"
  /\ worker' = [worker EXCEPT ![<<starts, main.i>>] = "test"]
  /\ main' = [main EXCEPT !.at = "append"]
  /\ UNCHANGED <<phases, current_time, built, raised, called, run_time, result, config>>
  /\ UNCHANGED <<phase_lock, clock_read, item, late>>
  /\ UNCHANGED user_vars
  /\ UNCHANGED <<stop_event, active_threads, thread_queue, phase_start_time, now,
                 lock, helper, starts>>

\* start_phases: with self._lock: self._active_threads.append(i), and on to
\* the next phase or out of the loop
start_phases_append ==
  /\ main.at = "append"
  /\ lock = NoThread
  /\ active_threads' = Append(active_threads, main.i)
  /\ main' = IF main.i + 1 < Len(phases)
             THEN [main EXCEPT !.at = "thread", !.i = main.i + 1]
             ELSE Idle
  /\ UNCHANGED <<phases, current_time, built, raised, called, run_time, result, config>>
  /\ UNCHANGED <<phase_lock, clock_read, item, late>>
  /\ UNCHANGED user_vars
  /\ UNCHANGED <<stop_event, thread_queue, phase_start_time, now, worker, lock, helper, starts>>

\* stop_phases: self._stop_event.set()
stop_phases ==
  /\ built
  /\ main.at = "idle"
  /\ stop_event' = TRUE
  /\ main' = [Idle EXCEPT !.at = "copy"]
  /\ UNCHANGED <<phases, current_time, built, raised, called, run_time, result, config>>
  /\ UNCHANGED <<phase_lock, clock_read, item, late>>
  /\ UNCHANGED user_vars
  /\ UNCHANGED <<active_threads, thread_queue, phase_start_time, now, worker, lock,
                 helper, starts>>

\* stop_phases: the copy self._active_threads[:] the for loop runs over
stop_phases_copy ==
  /\ main.at = "copy"
  /\ main' = IF active_threads = <<>> THEN Idle
             ELSE [at |-> "helper", i |-> 1, ids |-> active_threads, time |-> FZero]
  /\ UNCHANGED <<phases, current_time, built, raised, called, run_time, result, config>>
  /\ UNCHANGED <<phase_lock, clock_read, item, late>>
  /\ UNCHANGED user_vars
  /\ UNCHANGED <<stop_event, active_threads, thread_queue, phase_start_time, now,
                 worker, lock, helper, starts>>

\* stop_phases: thread.start() of the thread that runs the lambda, and
\* thread.join(timeout=1.0) begins to wait
stop_phases_thread ==
  /\ main.at = "helper"
  /\ helper' = "test"
  /\ main' = [main EXCEPT !.at = "join", !.time = now]
  /\ UNCHANGED <<phases, current_time, built, raised, called, run_time, result, config>>
  /\ UNCHANGED <<phase_lock, clock_read, item, late>>
  /\ UNCHANGED user_vars
  /\ UNCHANGED <<stop_event, active_threads, thread_queue, phase_start_time, now,
                 worker, lock, starts>>

\* the lambda: thread_id in self._active_threads, with no lock held
helper_test ==
  /\ helper = "test"
  /\ helper' = IF Contains(active_threads, main.ids[main.i]) THEN "remove" ELSE "done"
  /\ UNCHANGED <<phases, current_time, built, raised, called, run_time, result, config>>
  /\ UNCHANGED <<phase_lock, clock_read, item, late>>
  /\ UNCHANGED user_vars
  /\ UNCHANGED <<stop_event, active_threads, thread_queue, phase_start_time, now,
                 worker, lock, main, starts>>

\* the lambda: self._active_threads.remove(thread_id), with no lock held;
\* ValueError ends the helper if the worker took its id out meanwhile
helper_remove ==
  /\ helper = "remove"
  /\ IF Contains(active_threads, main.ids[main.i])
     THEN /\ active_threads' = RemoveFirst(active_threads, main.ids[main.i])
          /\ helper' = "done"
     ELSE /\ helper' = "ValueError"
          /\ UNCHANGED active_threads
  /\ UNCHANGED <<phases, current_time, built, raised, called, run_time, result, config>>
  /\ UNCHANGED <<phase_lock, clock_read, item, late>>
  /\ UNCHANGED user_vars
  /\ UNCHANGED <<stop_event, thread_queue, phase_start_time, now, worker, lock, main, starts>>

\* what thread_id is to the thread h of stop_phases
thread_id(h) == IF h.id = LoopVariable THEN main.ids[main.i] ELSE h.id

\* the late threads when the loop of stop_phases goes on or ends: the loop
\* variable keeps its last value once the call has returned
after_join(threads) ==
  IF main.i < Len(main.ids) THEN threads
  ELSE [k \in 1..Len(threads) |->
          [threads[k] EXCEPT !.id = thread_id(threads[k])]]

\* stop_phases: the loop goes on to the next id of the copy or ends
next_thread_id ==
  IF main.i < Len(main.ids)
  THEN [main EXCEPT !.at = "helper", !.i = main.i + 1, !.time = FZero]
  ELSE Idle

\* stop_phases waiting, with no timeout, for the worker the id belongs to
\* instead of the thread that runs the lambda
stop_phases_join_worker ==
  /\ main.at = "join"
  /\ helper \in {"done", "ValueError"}
  /\ worker[<<starts, main.ids[main.i]>>] \in {"done", "ValueError"}
  /\ helper' = "none"
  /\ late' = after_join(late)
  /\ main' = next_thread_id
  /\ UNCHANGED <<phases, current_time, built, raised, called, run_time, result, config>>
  /\ UNCHANGED <<phase_lock, clock_read, item>>
  /\ UNCHANGED user_vars
  /\ UNCHANGED <<stop_event, active_threads, thread_queue, phase_start_time, now,
                 worker, lock, starts>>

\* stop_phases: thread.join(timeout=1.0) returns, the helper having ended,
\* and the loop goes on to the next id of the copy or ends
stop_phases_join ==
  /\ main.at = "join"
  /\ helper \in {"done", "ValueError"}
  /\ helper' = "none"
  /\ late' = after_join(late)
  /\ main' = next_thread_id
  /\ UNCHANGED <<phases, current_time, built, raised, called, run_time, result, config>>
  /\ UNCHANGED <<phase_lock, clock_read, item>>
  /\ UNCHANGED user_vars
  /\ UNCHANGED <<stop_event, active_threads, thread_queue, phase_start_time, now,
                 worker, lock, starts>>

\* the timeout of thread.join(timeout=1.0)
JoinTimeout == FromInt(1)

\* stop_phases: thread.join(timeout=1.0) returns after one second, the thread
\* it waited for still running, and the loop goes on or ends
stop_phases_join_timeout ==
  /\ main.at = "join"
  /\ helper \in {"test", "remove"}
  /\ ~FLt(FSub(now, main.time), JoinTimeout)
  /\ late' = after_join(Append(late, [at |-> helper, id |-> LoopVariable]))
  /\ helper' = "none"
  /\ main' = next_thread_id
  /\ UNCHANGED <<phases, current_time, built, raised, called, run_time, result, config>>
  /\ UNCHANGED <<phase_lock, clock_read, item>>
  /\ UNCHANGED user_vars
  /\ UNCHANGED <<stop_event, active_threads, thread_queue, phase_start_time, now,
                 worker, lock, starts>>

\* the lambda of a thread stop_phases no longer waits for: thread_id in
\* self._active_threads, thread_id being what the loop variable is by now.
\* A join times out when the clock has moved on by a second since it began,
\* which the readings of ClockTenths allow MaxStarts times: late holds no
\* more than MaxStarts threads.
late_helper_test(k) ==
  /\ k \in 1..Len(late)
  /\ late[k].at = "test"
  /\ late' = IF Contains(active_threads, thread_id(late[k]))
             THEN [late EXCEPT ![k].at = "remove"]
             ELSE SubSeq(late, 1, k - 1) \o SubSeq(late, k + 1, Len(late))
  /\ UNCHANGED <<phases, current_time, built, raised, called, run_time, result, config>>
  /\ UNCHANGED <<phase_lock, clock_read, item>>
  /\ UNCHANGED user_vars
  /\ UNCHANGED <<stop_event, active_threads, thread_queue, phase_start_time, now,
                 worker, lock, main, helper, starts>>

\* the lambda of such a thread: self._active_threads.remove(thread_id), the
\* variable read once more; the thread ends, with ValueError if the id is
\* not in the list
late_helper_remove(k) ==
  /\ k \in 1..Len(late)
  /\ late[k].at = "remove"
  /\ late' = SubSeq(late, 1, k - 1) \o SubSeq(late, k + 1, Len(late))
  /\ active_threads' = IF Contains(active_threads, thread_id(late[k]))
                       THEN RemoveFirst(active_threads, thread_id(late[k]))
                       ELSE active_threads
  /\ UNCHANGED <<phases, current_time, built, raised, called, run_time, result, config>>
  /\ UNCHANGED <<phase_lock, clock_read, item>>
  /\ UNCHANGED user_vars
  /\ UNCHANGED <<stop_event, thread_queue, phase_start_time, now, worker, lock, main,
                 helper, starts>>

\* BaseLoadShape.tick taking its item with a get() that waits for one
BaseLoadShape_tick_waits ==
  /\ built
  /\ main.at = "idle"
  /\ thread_queue # <<>>
  /\ result' = Head(thread_queue)
  /\ thread_queue' = Tail(thread_queue)
  /\ raised' = "none"
  /\ UNCHANGED <<phases, current_time, built, called, run_time, config>>
  /\ UNCHANGED <<phase_lock, clock_read, item, late>>
  /\ UNCHANGED user_vars
  /\ UNCHANGED <<stop_event, active_threads, phase_start_time, now, worker, lock,
                 main, helper, starts>>

\* BaseLoadShape.tick returning the oldest item and leaving it in the queue
BaseLoadShape_tick_peeks ==
  /\ built
  /\ main.at = "idle"
  /\ result' = IF thread_queue # <<>> THEN Head(thread_queue) ELSE None
  /\ UNCHANGED thread_queue
  /\ raised' = "none"
  /\ UNCHANGED <<phases, current_time, built, called, run_time, config>>
  /\ UNCHANGED <<phase_lock, clock_read, item, late>>
  /\ UNCHANGED user_vars
  /\ UNCHANGED <<stop_event, active_threads, phase_start_time, now, worker, lock,
                 main, helper, starts>>

\* BaseLoadShape.tick: queue.Queue is first in, first out
BaseLoadShape_tick ==
  /\ built
  /\ main.at = "idle"
  /\ IF thread_queue # <<>>
     THEN /\ result' = Head(thread_queue)
          /\ thread_queue' = Tail(thread_queue)
     ELSE /\ result' = None
          /\ UNCHANGED thread_queue
  /\ raised' = "none"
  /\ UNCHANGED <<phases, current_time, built, called, run_time, config>>
  /\ UNCHANGED <<phase_lock, clock_read, item, late>>
  /\ UNCHANGED user_vars
  /\ UNCHANGED <<stop_event, active_threads, phase_start_time, now, worker, lock,
                 main, helper, starts>>

(***************************************************************************)
(* reponse_validator/ResponseValidator.py and the simulated users that     *)
(* hold one (example_user.py, DummyJsonLoginCurrentUser_Flow.py).          *)
(*                                                                         *)
(* A response is what validate() reads of it: status_code, headers.get     *)
(* and json().  Its body is the value json() returns, given by the value   *)
(* at each path (None where the path is absent), or no JSON at all, in     *)
(* which case json() raises.  Python values that may be None are Some(v)   *)
(* or None.  The messages of the results are not modelled.                 *)
(***************************************************************************)
\* expectations a validator holds before further ones are turned away
MaxValidations == 2

ResponseHeaderNames == {"Content-Type"}
ContentTypes == {"application/json", "text/html"}
JsonPaths == {"data.0.id"}
JsonValues == {None, Some(1), Some(2)}

\* the schemas handed to expect_json_schema: ExampleUser.user_schema
Schemas == {"user_schema"}
\* conforms: the schemas jsonschema accepts the body for, which the values
\* the body holds at the paths of JsonPaths do not tell
Bodies ==
  {[is_json |-> FALSE, at |-> [p \in JsonPaths |-> None], conforms |-> {}]}
    \cup {[is_json |-> TRUE, at |-> f, conforms |-> c] :
             f \in [JsonPaths -> JsonValues], c \in SUBSET Schemas}

\* a header is absent or holds the first of the values an expectation names
Responses ==
  [status_code : {200, 404},
   headers : [ResponseHeaderNames -> {None, Some("application/json")}],
   body : Bodies]

\* no response yet
NoResponse == [status_code |-> 0, headers |-> [n \in ResponseHeaderNames |-> None],
               body |-> [is_json |-> FALSE, at |-> [p \in JsonPaths |-> None],
                         conforms |-> {}]]

\* the entries of _validations; key is the header name, the path, the
\* schema or the name of the custom validator
Validation(type, key, expected) == [type |-> type, key |-> key, expected |-> expected]

\* the arguments of expect_status_code: one code or a list of codes
StatusCodeArgs == {<<200>>, <<200, 201>>}
ExpectedJsonValues == {None, Some(1)}
\* jsonschema.validate(instance, schema) returns rather than raises
jsonschema_validate(instance, schema) == schema \in instance.conforms
\* the names and the functions handed to add_custom_validator
CustomNames == {"ok"}
CustomFuncs == {"status_is_200", "body_is_json"}
validator_func(f, r) == IF f = "status_is_200" THEN r.status_code = 200 ELSE r.body.is_json

\* ResponseValidator.__init__
ResponseValidatorFields ==
  /\ validations = <<>>
  /\ custom_validators = [n \in CustomNames |-> None]
  /\ results = <<>>

(***************************************************************************)
(* request_builder/RequestBuilder.py.  A dict of headers or of params is a *)
(* function from the names to Some(value), None where the dict has no such *)
(* key.  The request handed to the HTTP client is kept in sent.  _data is  *)
(* left out: execute() passes it only when _json is None and nothing else  *)
(* reads it.                                                               *)
(***************************************************************************)
RequestHeaderNames == {"Accept", "Authorization"}
ParamNames == {"page"}

\* HEADERS["COMMON_HEADERS"] cut to the Accept header, and the header of the
\* current-user call
HeaderDicts ==
  {[n \in RequestHeaderNames |-> IF n = "Accept" THEN Some("application/json") ELSE None],
   [n \in RequestHeaderNames |-> IF n = "Authorization" THEN Some("Bearer token") ELSE None]}
ParamDicts == {[n \in ParamNames |-> Some("1")]}
JsonPayloads == {"LOGIN_PAYLOAD"}
HostArgs == {"https://dummyjson.com/"}
UrlArgs == {"/auth/me"}
MethodArgs == {"post", "trace"}
NameArgs == {"Dummy Json current user"}

\* str.rstrip('/'), str.lstrip('/') and str.upper() on the arguments above
rstrip_slash(s) == IF s = "https://dummyjson.com/" THEN "https://dummyjson.com" ELSE s
lstrip_slash(s) == IF s = "/auth/me" THEN "auth/me" ELSE s
upper(s) == IF s = "post" THEN "POST" ELSE IF s = "trace" THEN "TRACE" ELSE s
\* str.lower() on the methods a builder can hold
lower(s) == IF s = "GET" THEN "get" ELSE IF s = "POST" THEN "post"
            ELSE IF s = "TRACE" THEN "trace" ELSE s

\* dict.update
update(old, new) == [n \in DOMAIN old |-> IF new[n] # None THEN new[n] ELSE old[n]]

\* RequestBuilder.__init__
NewRequestBuilder ==
  [headers |-> [n \in RequestHeaderNames |-> None],
   params |-> [n \in ParamNames |-> None],
   json |-> None, method |-> "GET", url |-> "", name |-> "", host |-> ""]

\* no user has started: an empty validator, a fresh builder, nothing sent
UserFields ==
  /\ ResponseValidatorFields
  /\ response = NoResponse
  /\ builder = NewRequestBuilder
  /\ sent = None

user_frame ==
  /\ UNCHANGED <<phases, current_time, built, run_time, result, config>>
  /\ UNCHANGED runner_vars

expect_status_code(status_code, is_int) ==
  /\ called # "none"
  /\ Len(validations) < MaxValidations
  /\ validations' = Append(validations,
         Validation("status_code", IF is_int THEN "int" ELSE "list", status_code))
  /\ called' = "expect_status_code"
  /\ raised' = "none"
  /\ UNCHANGED <<custom_validators, results, response, builder, sent>>
  /\ user_frame

expect_header(header_name, expected_value) ==
  /\ called # "none"
  /\ Len(validations) < MaxValidations
  /\ validations' = Append(validations, Validation("header", header_name, Some(expected_value)))
  /\ called' = "expect_header"
  /\ raised' = "none"
  /\ UNCHANGED <<custom_validators, results, response, builder, sent>>
  /\ user_frame

expect_json_path(json_path, expected_value) ==
  /\ called # "none"
  /\ Len(validations) < MaxValidations
  /\ validations' = Append(validations, Validation("json_path", json_path, expected_value))
  /\ called' = "expect_json_path"
  /\ raised' = "none"
  /\ UNCHANGED <<custom_validators, results, response, builder, sent>>
  /\ user_frame

expect_json_schema(schema) ==
  /\ called # "none"
  /\ Len(validations) < MaxValidations
  /\ validations' = Append(validations, Validation("json_schema", schema, Some(schema)))
  /\ called' = "expect_json_schema"
  /\ raised' = "none"
  /\ UNCHANGED <<custom_validators, results, response, builder, sent>>
  /\ user_frame

add_custom_validator(name, func) ==
  /\ called # "none"
  /\ Len(validations) < MaxValidations
  /\ custom_validators' = [custom_validators EXCEPT ![name] = Some(func)]
  /\ validations' = Append(validations, Validation("custom", name, None))
  /\ called' = "add_custom_validator"
  /\ raised' = "none"
  /\ UNCHANGED <<results, response, builder, sent>>
  /\ user_frame

ResponseValidator_reset ==
  /\ called # "none"
  /\ validations' = <<>>
  /\ custom_validators' = [n \in CustomNames |-> None]
  /\ called' = "ResponseValidator.reset"
  /\ raised' = "none"
  /\ UNCHANGED <<results, response, builder, sent>>
  /\ user_frame

\* the value validate() finds at a path of the body: the code has no lookup
\* and takes None
json_path_actual(body, path) == None

ValidationResult(is_valid, expected, actual, validation_type) ==
  [is_valid |-> is_valid, expected |-> expected, actual |-> actual,
   validation_type |-> validation_type]

\* one round of validate()'s loop, for an entry that yields a result
validate_one(validation, cv, r) ==
  IF validation.type = "status_code"
  THEN LET expected == validation.expected
           actual   == r.status_code
           is_valid == IF validation.key = "int" THEN actual = expected[1]
                       ELSE \E k \in 1..Len(expected) : expected[k] = actual
       IN  ValidationResult(is_valid, expected, Some(actual), "status_code")
  ELSE IF validation.type = "header"
  THEN LET expected == validation.expected
           actual   == r.headers[validation.key]
       IN  ValidationResult(actual = expected, expected, actual, "header")
  ELSE IF validation.type = "json_path"
  THEN IF r.body.is_json
       THEN LET expected == validation.expected
                actual   == json_path_actual(r.body, validation.key)
            IN  ValidationResult(actual = expected, expected, actual, "json_path")
       ELSE ValidationResult(FALSE, validation.expected, None, "json_path")
  ELSE IF validation.type = "json_schema"
  THEN ValidationResult(jsonschema_validate(r.body, validation.key),
                        validation.expected, Some(r.body), "json_schema")
  ELSE ValidationResult(validator_func(cv[validation.key][1], r),
                        Some("Custom validation to pass"),
                        Some("Custom validation result"), "custom")

\* a custom entry whose name is not in _custom_validators yields no result
validate_all(vs, cv, r) ==
  LET ys == SelectSeq(vs, LAMBDA v : v.type = "custom" => cv[v.key] # None)
  IN  [i \in 1..Len(ys) |-> validate_one(ys[i], cv, r)]

\* the handler of the json_schema branch reads schema, which is unbound when
\* response.json() was what raised
validate_raises(vs, r) ==
  \E i \in 1..Len(vs) : vs[i].type = "json_schema" /\ ~r.body.is_json

validate(r) ==
  /\ called # "none"
  /\ results' = IF validate_raises(validations, r) THEN <<>>
                ELSE validate_all(validations, custom_validators, r)
  /\ response' = r
  /\ called' = "validate"
  /\ raised' = IF validate_raises(validations, r) THEN "UnboundLocalError" ELSE "none"
  /\ UNCHANGED <<validations, custom_validators, builder, sent>>
  /\ user_frame

\* assert_valid: results is the list the validate() call inside it returned
assert_valid(r) ==
  /\ called # "none"
  /\ results' = IF validate_raises(validations, r) THEN <<>>
                ELSE validate_all(validations, custom_validators, r)
  /\ response' = r
  /\ called' = "assert_valid"
  /\ raised' = IF validate_raises(validations, r) THEN "UnboundLocalError"
               ELSE IF \E i \in 1..Len(results') : ~results'[i].is_valid
               THEN "AssertionError" ELSE "none"
  /\ UNCHANGED <<validations, custom_validators, builder, sent>>
  /\ user_frame

builder_call(name, b) ==
  /\ called # "none"
  /\ builder' = b
  /\ called' = name
  /\ raised' = "none"
  /\ UNCHANGED <<validations, custom_validators, results, response, sent>>
  /\ user_frame

with_host(host) == builder_call("with_host", [builder EXCEPT !.host = rstrip_slash(host)])

with_url(url) == builder_call("with_url", [builder EXCEPT !.url = lstrip_slash(url)])

with_method(method) == builder_call("with_method", [builder EXCEPT !.method = upper(method)])

\* with_headers that replaces the headers already set
with_headers_replace(headers) ==
  builder_call("with_headers", [builder EXCEPT !.headers = headers])

with_headers(headers) ==
  builder_call("with_headers", [builder EXCEPT !.headers = update(@, headers)])

with_params(params) ==
  builder_call("with_params", [builder EXCEPT !.params = update(@, params)])

with_json(json_data) == builder_call("with_json", [builder EXCEPT !.json = Some(json_data)])

with_name(name) == builder_call("with_name", [builder EXCEPT !.name = name])

\* the keyword arguments and the URL execute() hands to the HTTP client
Request(b) ==
  LET full_url == IF b.host # "" THEN b.host \o "/" \o b.url ELSE b.url
  IN  [method |-> lower(b.method), url |-> full_url, headers |-> b.headers,
       params |-> b.params, name |-> IF b.name # "" THEN b.name ELSE full_url,
       json |-> b.json]

SupportedMethods == {"get", "post", "put", "delete", "patch"}

\* execute(): r is the response of the server
execute(r) ==
  /\ called # "none"
  /\ called' = "execute"
  /\ IF builder.url = "" \/ lower(builder.method) \notin SupportedMethods
     THEN /\ raised' = "ValueError"
          /\ UNCHANGED <<sent, response>>
     ELSE /\ raised' = "none"
          /\ sent' = Some(Request(builder))
          /\ response' = r
  /\ UNCHANGED <<validations, custom_validators, results, builder>>
  /\ user_frame

RequestBuilder_reset == builder_call("RequestBuilder.reset", NewRequestBuilder)

\* ExampleUser.on_start: a builder with its host, a validator with the
\* expectation common to all requests
ExampleUser_on_start ==
  /\ called = "none"
  /\ builder' = [NewRequestBuilder EXCEPT !.host = rstrip_slash("https://api.example.com")]
  /\ validations' = <<Validation("header", "Content-Type", Some("application/json"))>>
  /\ called' = "on_start"
  /\ raised' = "none"
  /\ custom_validators' = [n \in CustomNames |-> None]
  /\ UNCHANGED <<results, response, sent>>
  /\ user_frame

\* MyUser.on_start of DummyJsonLoginCurrentUser_Flow: a builder with its
\* host, an empty validator
MyUser_on_start ==
  /\ called = "none"
  /\ \E host \in HostArgs : builder' = [NewRequestBuilder EXCEPT !.host = rstrip_slash(host)]
  /\ validations' = <<>>
  /\ called' = "on_start"
  /\ raised' = "none"
  /\ custom_validators' = [n \in CustomNames |-> None]
  /\ UNCHANGED <<results, response, sent>>
  /\ user_frame

(***************************************************************************)
(* ValidatorSpec: the validator of one ExampleUser, its tasks resetting it *)
(* and adding expectations in any order, any response validated.           *)
(***************************************************************************)
ValidatorInit ==
  /\ FactoryInit
  /\ BaseLoadShapeFields
  /\ UserFields
  /\ called = "none"
  /\ run_time = FZero
  /\ result = None
  /\ config = ClassConfig

ValidatorNext ==
  \/ ExampleUser_on_start
  \/ \E c \in StatusCodeArgs : expect_status_code(c, Len(c) = 1)
  \/ \E n \in ResponseHeaderNames, v \in ContentTypes : expect_header(n, v)
  \/ \E p \in JsonPaths, v \in ExpectedJsonValues : expect_json_path(p, v)
  \/ \E schema \in Schemas : expect_json_schema(schema)
  \/ \E n \in CustomNames, f \in CustomFuncs : add_custom_validator(n, f)
  \/ ResponseValidator_reset
  \/ \E r \in Responses : validate(r)
  \/ \E r \in Responses : assert_valid(r)

ValidatorSpec == ValidatorInit /\ [][ValidatorNext]_vars

(***************************************************************************)
(* RequestSpec: the builder of one MyUser, configured and executed in any  *)
(* order.                                                                  *)
(***************************************************************************)
OkResponse ==
  [status_code |-> 200,
   headers |-> [n \in ResponseHeaderNames |-> Some("application/json")],
   body |-> [is_json |-> TRUE, at |-> [p \in JsonPaths |-> Some(1)],
             conforms |-> {}]]

RequestNext ==
  \/ MyUser_on_start
  \/ \E h \in HostArgs : with_host(h)
  \/ \E u \in UrlArgs : with_url(u)
  \/ \E m \in MethodArgs : with_method(m)
  \/ \E h \in HeaderDicts : with_headers(h)
  \/ \E p \in ParamDicts : with_params(p)
  \/ \E j \in JsonPayloads : with_json(j)
  \/ \E n \in NameArgs : with_name(n)
  \/ execute(OkResponse)
  \/ RequestBuilder_reset

RequestSpec == ValidatorInit /\ [][RequestNext]_vars

(***************************************************************************)
(* Spec: any chain of builder calls, build(), and synchronous ticks of the *)
(* load shape that holds the built list.                                   *)
(***************************************************************************)
Init ==
  /\ FactoryInit
  /\ BaseLoadShapeFields
  /\ UserFields
  /\ called = "none"
  /\ run_time = FZero
  /\ result = None
  /\ config = ClassConfig

Next ==
  \/ (Len(phases) < MaxPhases /\ \E n \in Users : spike(n))
  \/ (Len(phases) < MaxPhases /\ \E n \in Users, d \in Durations : ramp_up(n, d))
  \/ (Len(phases) < MaxPhases /\ \E n \in Users, d \in Durations : steady_users(n, d))
  \/ (Len(phases) < MaxPhases
        /\ \E f \in Users, n \in Users, d \in Durations : stress_ramp(f, n, d))
  \/ build
  \/ \E t \in RunTimes(phases) : tick(t)

Spec == Init /\ [][Next]_vars

(***************************************************************************)
(* ShapeSpec: CustomLoadShape.__init__ runs the chain spike, ramp_up,      *)
(* steady_users, stress_ramp, build on its eight constants; then ticks.    *)
(***************************************************************************)
\* a run time in the middle of the class constants' ramp, 5.1 s
MidRamp == Time(51)
\* values of get_run_time() for the four-phase shape
ShapeTimes(ps) == RunTimes(ps) \cup {MidRamp}

ShapeInit ==
  /\ FactoryInit
  /\ BaseLoadShapeFields
  /\ UserFields
  /\ called = "none"
  /\ run_time = FZero
  /\ result = None
  /\ config \in SmallConfigs \cup {ClassConfig}

ShapeNext ==
  \/ (Len(phases) = 0 /\ ~built /\ spike(config.initial_spike_users))
  \/ (Len(phases) = 1 /\ ~built /\ ramp_up(config.ramp_up_users, config.ramp_up_duration))
  \/ (Len(phases) = 2 /\ ~built
        /\ steady_users(config.steady_users, config.steady_duration))
  \/ (Len(phases) = 3 /\ ~built
        /\ stress_ramp(config.stress_start_users, config.stress_end_users,
                       config.stress_duration))
  \/ (Len(phases) = 4 /\ ~built /\ build)
  \/ \E t \in ShapeTimes(phases) : tick(t)

ShapeSpec == ShapeInit /\ [][ShapeNext]_vars

(***************************************************************************)
(* PhaseSpec: one hand-built Phase, asked for its user count.              *)
(***************************************************************************)
HandStartTimes == {FZero, FTenth, FAdd(FTenth, FromInt(1))}
HandDurations == {FromInt(d) : d \in Durations} \cup {FTenth}
\* user counts of a hand-built phase: those handed to the builder and one more
HandUsers == Users \cup {MaxUsers + 1}

PhaseInit ==
  /\ \E s \in HandStartTimes, d \in HandDurations, us \in HandUsers, ue \in HandUsers :
       phases = <<Phase(s, d, us, ue, FromInt(us))>>
  /\ current_time = FZero
  /\ built = TRUE
  /\ raised = "none"
  /\ called = "none"
  /\ run_time = FZero
  /\ result = None
  /\ config = ClassConfig
  /\ BaseLoadShapeFields
  /\ UserFields

PhaseNext ==
  \/ \E t \in CountTimes(phases[1]) : call_user_count_at(t)
  \/ \E t \in RunTimes(phases) : tick(t)

PhaseSpec == PhaseInit /\ [][PhaseNext]_vars

(***************************************************************************)
(* RunnerSpec: BaseLoadShape.__init__ builds its phases, then one thread   *)
(* calls start_phases, stop_phases and tick while the threads these make   *)
(* run and time passes.  start_phases makes a thread for every phase; the  *)
(* threads of the first MaxRunning phases are given the processor.         *)
(***************************************************************************)
RunnerInit ==
  /\ FactoryInit
  /\ BaseLoadShapeFields
  /\ UserFields
  /\ called = "none"
  /\ run_time = FZero
  /\ result = None
  /\ config \in RunnerConfigs

RunnerNext ==
  \/ (Len(phases) = 0 /\ ~built /\ spike(config.initial_spike_users))
  \/ (Len(phases) = 1 /\ ~built /\ ramp_up(config.ramp_up_users, config.ramp_up_duration))
  \/ (Len(phases) = 2 /\ ~built
        /\ steady_users(config.steady_users, config.steady_duration))
  \/ (Len(phases) = 3 /\ ~built
        /\ stress_ramp(config.stress_start_users, config.stress_end_users,
                       config.stress_duration))
  \/ (Len(phases) = ChainLength /\ ~built /\ build)
  \/ (starts < MaxStarts /\ start_phases)
  \/ start_phases_clock
  \/ start_phases_time
  \/ start_phases_thread
  \/ start_phases_append
  \/ stop_phases
  \/ stop_phases_copy
  \/ stop_phases_thread
  \/ stop_phases_join
  \/ stop_phases_join_timeout
  \/ helper_test
  \/ helper_remove
  \/ \E k \in 1..MaxStarts : late_helper_test(k)
  \/ \E k \in 1..MaxStarts : late_helper_remove(k)
  \/ BaseLoadShape_tick
  \/ time_passes
  \/ \E w \in Workers : execute_phase_test(w)
  \/ \E w \in Workers : execute_phase_clock(w)
  \/ \E w \in Workers : execute_phase_poll(w)
  \/ \E w \in Workers : execute_phase_put(w)
  \/ \E w \in Workers : execute_phase_finally(w)
  \/ \E w \in Workers : execute_phase_remove(w)

RunnerSpec == RunnerInit /\ [][RunnerNext]_vars

(***************************************************************************)
(* The threaded shape under fair scheduling.  BaseLoadShape.__init__ runs  *)
(* on phases of 0.1, 1, 1 and 1 seconds; start_phases, stop_phases and     *)
(* tick are called and the threads run as in RunnerSpec; the clock is read *)
(* at the time start_phases reads it and 1.1 seconds later, when every     *)
(* phase has lasted its duration, and it does not move while a worker is   *)
(* inside its with block.                                                  *)
(***************************************************************************)
ShortConfigs == {Config(MaxUsers, MaxUsers, 1, MaxUsers, 1, MaxUsers, MaxUsers, 1)}

FairInit ==
  /\ FactoryInit
  /\ BaseLoadShapeFields
  /\ UserFields
  /\ called = "none"
  /\ run_time = FZero
  /\ result = None
  /\ config \in ShortConfigs

\* the readings of the clock that lie 1.1 s apart
LateReadings == [k \in 0..MaxStarts |-> Time(11 * k)]

\* time_passes from the reading start_phases took last to the one 1.1 s
\* later, while no worker is inside its with block
time_passes_late ==
  /\ starts > (IF main.at \in {"start_time", "store"} THEN 1 ELSE 0)
  /\ now = phase_start_time
  /\ phase_lock = NoThread
  /\ time_passes
  /\ \E k \in 1..MaxStarts : now = LateReadings[k - 1] /\ now' = LateReadings[k]

FairNext ==
  \/ (Len(phases) = 0 /\ ~built /\ spike(config.initial_spike_users))
  \/ (Len(phases) = 1 /\ ~built /\ ramp_up(config.ramp_up_users, config.ramp_up_duration))
  \/ (Len(phases) = 2 /\ ~built
        /\ steady_users(config.steady_users, config.steady_duration))
  \/ (Len(phases) = 3 /\ ~built
        /\ stress_ramp(config.stress_start_users, config.stress_end_users,
                       config.stress_duration))
  \/ (Len(phases) = ChainLength /\ ~built /\ build)
  \/ (starts < MaxStarts /\ start_phases)
  \/ start_phases_clock
  \/ start_phases_time
  \/ start_phases_thread
  \/ start_phases_append
  \/ stop_phases
  \/ stop_phases_copy
  \/ stop_phases_thread
  \/ stop_phases_join
  \/ stop_phases_join_timeout
  \/ helper_test
  \/ helper_remove
  \/ \E k \in 1..MaxStarts : late_helper_test(k)
  \/ \E k \in 1..MaxStarts : late_helper_remove(k)
  \/ BaseLoadShape_tick
  \/ time_passes_late
  \/ \E w \in Workers : execute_phase_test(w)
  \/ \E w \in Workers : execute_phase_clock(w)
  \/ \E w \in Workers : execute_phase_poll(w)
  \/ \E w \in Workers : execute_phase_put(w)
  \/ \E w \in Workers : execute_phase_finally(w)
  \/ \E w \in Workers : execute_phase_remove(w)

\* StopSpec: the thread that calls stop_phases and the threads stop_phases
\* starts are scheduled fairly.  Nothing is asked of the workers or of the
\* clock: a worker may stop taking steps for ever.
StopFairness ==
  /\ WF_vars(stop_phases_copy \/ stop_phases_thread \/ stop_phases_join)
  /\ WF_vars(helper_test \/ helper_remove)

StopSpec == FairInit /\ [][FairNext]_vars /\ StopFairness

\* WorkerSpec: every worker is scheduled fairly and the clock moves on.
\* Nothing is asked of the thread that calls start_phases, stop_phases and
\* tick.  A worker about to enter its with block does enter it: it waits
\* there for _phase_lock alone, which no thread keeps, and put() on a Queue
\* without maxsize does not wait.
WorkerFairness ==
  /\ \A w \in Workers :
       WF_vars(execute_phase_test(w) \/ execute_phase_finally(w)
                 \/ execute_phase_remove(w))
  /\ \A w \in Workers : []<>(worker[w] \notin {"poll", "block", "put"})
  /\ WF_vars(time_passes_late)

WorkerSpec == FairInit /\ [][FairNext]_vars /\ WorkerFairness

(***************************************************************************)
(* TickSpec: a load shape of either class on the phases of FairInit.  It   *)
(* is a BaseLoadShape, whose start_phases, stop_phases and tick are called *)
(* as in FairNext, or it is a CustomLoadShape, whose tick is called at the *)
(* times of RunTimes and on which no thread is ever started.               *)
(***************************************************************************)
TickNext ==
  \/ (called # "tick" /\ FairNext)
  \/ (starts = 0 /\ ~stop_event /\ main.at = "idle"
        /\ \E t \in RunTimes(phases) : tick(t))

TickSpec == FairInit /\ [][TickNext]_vars

(***************************************************************************)
(* FaultSpec: FairNext, and the body of a worker's loop may raise.         *)
(***************************************************************************)
FaultNext ==
  \/ FairNext
  \/ \E w \in Workers : execute_phase_except(w)

FaultSpec == FairInit /\ [][FaultNext]_vars

(***************************************************************************)
(* RestartSpec: a BaseLoadShape on the phases of FairInit is started,      *)
(* stopped and started again within little more than a tenth of a second:  *)
(* the clock stays at its first reading or moves on by 0.1 s, once, which  *)
(* is less than the timeout of a join; tick is not called, and of the      *)
(* threads made only those of the first MaxRunning phases have been given  *)
(* the processor.                                                          *)
(***************************************************************************)
ScheduledWorkers == (1..MaxRestarts) \X (0..(MaxRunning - 1))

RestartNext ==
  \/ (Len(phases) = 0 /\ ~built /\ spike(config.initial_spike_users))
  \/ (Len(phases) = 1 /\ ~built /\ ramp_up(config.ramp_up_users, config.ramp_up_duration))
  \/ (Len(phases) = 2 /\ ~built
        /\ steady_users(config.steady_users, config.steady_duration))
  \/ (Len(phases) = 3 /\ ~built
        /\ stress_ramp(config.stress_start_users, config.stress_end_users,
                       config.stress_duration))
  \/ (Len(phases) = ChainLength /\ ~built /\ build)
  \/ (starts < MaxRestarts /\ (starts = 0 \/ stop_event) /\ start_phases)
  \/ start_phases_clock
  \/ start_phases_time
  \/ start_phases_thread
  \/ start_phases_append
  \/ (starts > 0 /\ ~stop_event /\ stop_phases)
  \/ stop_phases_copy
  \/ stop_phases_thread
  \/ stop_phases_join
  \/ helper_test
  \/ helper_remove
  \/ (time_passes /\ now' = FTenth)
  \/ \E w \in ScheduledWorkers : execute_phase_test(w)
  \/ \E w \in ScheduledWorkers : execute_phase_clock(w)
  \/ \E w \in ScheduledWorkers : execute_phase_poll(w)
  \/ \E w \in ScheduledWorkers : execute_phase_put(w)
  \/ \E w \in ScheduledWorkers : execute_phase_finally(w)
  \/ \E w \in ScheduledWorkers : execute_phase_remove(w)

RestartSpec == FairInit /\ [][RestartNext]_vars

(***************************************************************************)
(* ExitSpec: a BaseLoadShape on the phases of FairInit is started and left *)
(* alone: stop_phases and tick are not called.  Every thread start_phases  *)
(* makes is given the processor, and the clock moves as in FairNext.       *)
(***************************************************************************)
ExitNext ==
  \/ (Len(phases) = 0 /\ ~built /\ spike(config.initial_spike_users))
  \/ (Len(phases) = 1 /\ ~built /\ ramp_up(config.ramp_up_users, config.ramp_up_duration))
  \/ (Len(phases) = 2 /\ ~built
        /\ steady_users(config.steady_users, config.steady_duration))
  \/ (Len(phases) = 3 /\ ~built
        /\ stress_ramp(config.stress_start_users, config.stress_end_users,
                       config.stress_duration))
  \/ (Len(phases) = ChainLength /\ ~built /\ build)
  \/ (starts < MaxStarts /\ start_phases)
  \/ start_phases_clock
  \/ start_phases_time
  \/ start_phases_thread
  \/ start_phases_append
  \/ time_passes_late
  \/ \E w \in (1..MaxStarts) \X ThreadIds : execute_phase_test(w)
  \/ \E w \in (1..MaxStarts) \X ThreadIds : execute_phase_clock(w)
  \/ \E w \in (1..MaxStarts) \X ThreadIds : execute_phase_poll(w)
  \/ \E w \in (1..MaxStarts) \X ThreadIds : execute_phase_put(w)
  \/ \E w \in (1..MaxStarts) \X ThreadIds : execute_phase_finally(w)
  \/ \E w \in (1..MaxStarts) \X ThreadIds : execute_phase_remove(w)

ExitSpec == FairInit /\ [][ExitNext]_vars

(***************************************************************************)
(* Properties of the synchronous scheduler, the phase and the builder.     *)
(***************************************************************************)
LastPhase == phases[Len(phases)]

\* the index of the first phase in ps that is defined at t, 0 if none is
FirstDefined(ps, t) ==
  IF \E i \in 1..Len(ps) : user_count_at(ps[i], t) # None
  THEN CHOOSE i \in 1..Len(ps) :
         /\ user_count_at(ps[i], t) # None
         /\ \A j \in 1..(i - 1) : user_count_at(ps[j], t) = None
  ELSE 0

\* C1: tick(elapsed) returns (user_count_at(elapsed), spawn_rate) of the first
\* phase, in list order, whose user_count_at(elapsed) is defined, and None
\* if there is none; and at a time that is both the end of phase i and the
\* start of phase i+1 of the list the builder made, tick returns phase i's
\* (user_end, spawn_rate).
C1_FirstPhaseWins ==
  called = "tick" =>
    /\ LET i == FirstDefined(phases, run_time)
       IN  result = IF i = 0 THEN None
                    ELSE <<user_count_at(phases[i], run_time)[1], phases[i].spawn_rate>>
    /\ \A i \in 1..(Len(phases) - 1) :
         (run_time = EndTime(phases[i]) /\ run_time = phases[i + 1].start_time)
           => result = <<phases[i].user_end, phases[i].spawn_rate>>

\* C2: for a list made by the builder, tick(t) returns None for every t
\* strictly greater than start_time + duration of the last phase.
C2_NoneAfterLastPhase ==
  (called = "tick" /\ phases # <<>> /\ FGt(run_time, EndTime(LastPhase)))
    => result = None

\* a phase as spike(n) makes it when it is the first call of the chain
IsSpikePhase(p) ==
  /\ p.start_time = FZero
  /\ p.duration = FTenth
  /\ p.user_start = p.user_end
  /\ p.spawn_rate = FromInt(p.user_end)

\* C3: user_count_at(t) returns None exactly when t < start_time or
\* t > start_time + duration, and a count for every t from start_time to
\* start_time + duration, both included; for a list holding only spike(n),
\* tick at 0 and at 0.1 returns (n, n), and tick just above 0.1 returns None.
C3_InclusiveWindow ==
  /\ called = "user_count_at" =>
       (result = None <=>
          (FLt(run_time, phases[1].start_time) \/ FGt(run_time, EndTime(phases[1]))))
  /\ (called = "tick" /\ Len(phases) = 1 /\ IsSpikePhase(phases[1])) =>
       /\ run_time \in {FZero, FTenth}
            => result = <<phases[1].user_end, FromInt(phases[1].user_end)>>
       /\ run_time = JustAbove(FTenth) => result = None

\* user_count_at was asked at the last moment of a window of positive length,
\* and a spike-only list was ticked at 0.1, and both answered
C3_Witness ==
  \/ /\ called = "user_count_at"
     /\ FGt(phases[1].duration, FZero)
     /\ run_time = EndTime(phases[1])
     /\ result # None
  \/ /\ called = "tick"
     /\ Len(phases) = 1
     /\ IsSpikePhase(phases[1])
     /\ run_time = FTenth
     /\ result # None

\* count is floor(us + (ue - us) * (t - s) / d) in exact arithmetic, d > 0:
\*   (count - us) * d <= (ue - us) * (t - s) < (count + 1 - us) * d
IsExactFloor(count, p, t) ==
  LET num == XMul(XInt(p.user_end - p.user_start), XSub(t, p.start_time))
  IN  /\ XLe(XMul(XInt(count - p.user_start), p.duration), num)
      /\ XLt(num, XMul(XInt(count + 1 - p.user_start), p.duration))

\* C4: for a phase with duration > 0 (and user counts that are not negative)
\* and t inside its window, user_count_at(t) is
\* floor(user_start + (user_end - user_start) * (t - start_time) / duration),
\* for ascending and descending ramps; it is user_start at t = start_time and
\* user_end at t = start_time + duration.
C4_FloorOfInterpolation ==
  (called = "user_count_at" /\ FGt(phases[1].duration, FZero)
     /\ phases[1].user_start >= 0 /\ phases[1].user_end >= 0
     /\ ~FLt(run_time, phases[1].start_time) /\ ~FGt(run_time, EndTime(phases[1])))
    => /\ result # None
       /\ IsExactFloor(result[1], phases[1], run_time)
       /\ run_time = phases[1].start_time => result[1] = phases[1].user_start
       /\ run_time = EndTime(phases[1]) => result[1] = phases[1].user_end

\* C5: in the list any chain of builder calls makes, the first phase starts
\* at 0, every later phase starts at start_time + duration of the phase before
\* it, and the builder's cursor is the end of the last phase appended.
C5_Contiguous ==
  /\ phases # <<>> => phases[1].start_time = FZero
  /\ \A i \in 1..(Len(phases) - 1) :
       phases[i + 1].start_time = FAdd(phases[i].start_time, phases[i].duration)
  /\ current_time = IF phases = <<>> THEN FZero ELSE EndTime(LastPhase)

\* a spike followed by a phase of positive duration
C5_Witness ==
  /\ Len(phases) >= 2
  /\ phases[1].duration = FTenth
  /\ phases[2].start_time = FTenth
  /\ FGt(phases[2].duration, FZero)
  /\ current_time = FAdd(FTenth, phases[2].duration)

(***************************************************************************)
(* Properties of the threaded load shape.                                  *)
(***************************************************************************)
\* stop_phases has returned and start_phases has not been called since
StopReturned == stop_event /\ main.at = "idle"

\* current_time of the worker inside the with block
Elapsed == FSub(clock_read, phase_start_time)

\* C6: once stop_phases has returned, no worker puts a further item on the
\* queue, and each tick returns the oldest item still queued, or None once
\* the queue is empty.
C6_QuietAfterStop ==
  [][StopReturned =>
       /\ Len(thread_queue') <= Len(thread_queue)
       /\ BaseLoadShape_tick =>
            result' = IF thread_queue = <<>> THEN None ELSE Head(thread_queue)]_vars

\* C7 as claimed: no item is put on the queue in a state in which the stop
\* flag is set.
C7_NoPutWhileSet ==
  [][stop_event => Len(thread_queue') <= Len(thread_queue)]_vars

\* C7: a worker tests the stop flag once per loop iteration, before it polls:
\* every put belongs to an iteration whose test found the flag unset, and a
\* test that finds the flag set ends the loop with no put; so a worker puts at
\* most one item more after the flag is set.
C7_PutFollowsTest ==
  [][/\ Len(thread_queue') > Len(thread_queue)
          => \E w \in Workers : worker[w] = "put" /\ worker'[w] = "sleep"
     /\ \A w \in Workers :
          (worker[w] # "put" /\ worker'[w] = "put") => worker[w] = "block"
     /\ \A w \in Workers :
          (worker[w] # "block" /\ worker'[w] = "block") => worker[w] = "poll"
     /\ \A w \in Workers :
          (worker[w] # "poll" /\ worker'[w] = "poll")
            => (worker[w] = "test" /\ ~stop_event)
     /\ \A w \in Workers :
          (stop_event /\ worker[w] = "test" /\ worker'[w] # "test")
            => (worker'[w] = "stopped" /\ thread_queue' = thread_queue)]_vars

\* the flag is set while a worker that found it unset is about to put an item
C7_Witness ==
  /\ stop_event
  /\ \E w \in Workers :
       /\ worker[w] = "put"
       /\ item # None
       /\ Len(thread_queue) < MaxQueue

\* C8: tick takes the most recent item: whenever an item leaves the queue,
\* tick returns the item that was put last.
C8_NewestFirst ==
  [][Len(thread_queue') < Len(thread_queue)
       => result' = thread_queue[Len(thread_queue)]]_vars

\* C9: a worker stays in its loop until its phase's window
\* [start_time, start_time + duration] lies behind (unless it finds the stop
\* flag set), and at every poll inside the window it puts the phase's
\* (count, spawn_rate) on the queue.
C9_PollsThroughWindow ==
  [][\A w \in Workers :
       /\ (worker[w] = "block" /\ worker'[w] # "block")
            => /\ worker'[w] = "elapsed" => FGt(Elapsed, EndTime(PhaseOf(w)))
               /\ user_count_at(PhaseOf(w), Elapsed) # None
                    => /\ worker'[w] = "put"
                       /\ item' = Some(<<user_count_at(PhaseOf(w), Elapsed)[1],
                                          PhaseOf(w).spawn_rate>>)
       /\ (worker[w] = "put" /\ worker'[w] # "put")
            => thread_queue' = Append(thread_queue, item[1])]_vars

\* C10: when stop_phases returns, every worker that found the stop flag set
\* has ended.
C10_StoppedWorkersEnded ==
  [][(main.at # "idle" /\ main'.at = "idle" /\ stop_event)
       => \A w \in Workers : worker[w] # "stopped"]_vars

(***************************************************************************)
(* Properties of stop_phases, tick and start_phases of the threaded shape. *)
(***************************************************************************)
InStopPhases == main.at \in {"copy", "helper", "join"}

Ended(w) == worker[w] \in {"done", "ValueError"}

Alive(w) ==
  worker[w] \in {"test", "poll", "block", "put", "sleep", "stopped", "elapsed",
                 "caught", "remove"}

\* C11: stop_phases always returns, whatever the workers do and even if one
\* of them never takes another step: it waits in join at most once for each
\* id of its copy of the active list, of which there are no more than
\* workers were started, and every call that has begun comes to its end.
C11_StopReturns ==
  /\ [](InStopPhases =>
         /\ main.i <= Len(main.ids)
         /\ Len(main.ids) <= ChainLength * starts)
  /\ (InStopPhases ~> main.at = "idle")

\* stop_phases has returned, its helpers gone, while a worker that holds
\* _lock has not moved on
C11_Witness ==
  /\ StopReturned
  /\ helper = "none"
  /\ \E w \in Workers : worker[w] = "remove" /\ lock = w

IsPair(v) == v # None /\ Len(v) = 2 /\ v[1] \in Int

\* C12: tick never fails and never waits, in either shape.  Once the phases
\* are built, the threaded tick can be taken whenever its caller is not
\* inside start_phases or stop_phases, whatever the queue holds, whatever
\* the workers are doing, before start_phases and after stop_phases.  A tick
\* of either shape returns a pair (count, spawn_rate) or None and raises
\* nothing; the threaded tick returns None when the queue is empty and the
\* synchronous tick returns None at a time after the last phase.
C12_TickReturns ==
  [][/\ (built /\ main.at = "idle") => ENABLED BaseLoadShape_tick
     /\ (BaseLoadShape_tick \/ called' = "tick") =>
          /\ result' = None \/ IsPair(result')
          /\ raised' = "none"
     /\ (BaseLoadShape_tick /\ thread_queue = <<>>) => result' = None
     /\ (called' = "tick" /\ FGt(run_time', EndTime(LastPhase))) => result' = None]_vars

\* a tick has handed out a pair, the queue is empty again so that the next
\* tick returns None, and stop_phases has returned with workers still there
C12_Witness ==
  /\ StopReturned
  /\ IsPair(result)
  /\ called # "tick"
  /\ thread_queue = <<>>
  /\ \E w \in Workers : worker[w] = "poll"

\* worker w is ended by an exception: one raised in the body of its loop, or
\* the ValueError of the remove in its finally block
Faults(w) ==
  \/ worker[w] \in {"block", "put"} /\ worker'[w] = "caught"
  \/ worker[w] = "remove" /\ worker'[w] = "ValueError"

\* C13: an exception raised inside a worker stays inside that worker.  The
\* step that raises it leaves the thread that calls start_phases, tick and
\* stop_phases where it was, with nothing raised there, leaves every other
\* worker where it was and the queue as it was, and leaves _lock not taken
\* by the worker; and no step at all leaves _phase_lock taken by a worker
\* that is not inside its with block, so that the other workers go on
\* polling.
C13_FaultStaysInWorker ==
  [][/\ phase_lock' # NoThread => worker'[phase_lock'] \in {"block", "put"}
     /\ \A w \in Workers :
          Faults(w) =>
            /\ raised' = "none"
            /\ main' = main
            /\ result' = result
            /\ thread_queue' = thread_queue
            /\ \A v \in Workers \ {w} : worker'[v] = worker[v]
            /\ lock' # w]_vars

\* a worker's poll has raised, the queue still holds an item, and another
\* worker is about to poll
C13_Witness ==
  \E w \in Workers :
    /\ worker[w] = "caught"
    /\ thread_queue # <<>>
    /\ \E v \in Workers \ {w} : worker[v] = "poll"

\* C14: one call of start_phases starts one worker for each phase and no
\* other.  A worker comes to life only by a thread.start() of start_phases,
\* one at a time, in the order of the phases, the worker of the call's i-th
\* pass being the one that runs phases[i]; and when the call returns, the
\* workers it has started are those of the indices 0..Len(phases)-1, all of
\* them.
C14_OneWorkerPerPhase ==
  [][/\ \A w \in AllWorkers :
          (worker[w] = "unborn" /\ worker'[w] # "unborn") =>
            /\ main.at = "thread"
            /\ w = <<starts, main.i>>
            /\ PhaseOf(w) = phases[main.i + 1]
            /\ worker'[w] = "test"
            /\ \A v \in AllWorkers \ {w} : worker'[v] = worker[v]
            /\ \A i \in ThreadIds : i < main.i <=> worker[<<starts, i>>] # "unborn"
     /\ (main.at = "append" /\ main'.at = "idle") =>
          {i \in ThreadIds : worker'[<<starts, i>>] # "unborn"} = 0..(Len(phases) - 1)]_vars

\* start_phases has returned and the four workers, one per phase, are alive
C14_Witness ==
  /\ main.at = "idle"
  /\ starts = 1
  /\ active_threads = <<0, 1, 2, 3>>
  /\ \A i \in ThreadIds : worker[<<1, i>>] \in {"test", "poll", "block", "put", "sleep"}

\* C15: every worker comes to its end.  With the workers scheduled fairly
\* and the clock moving on, a worker that has been started leaves its loop,
\* because it finds the stop flag set or because the time since
\* start_phases exceeds its phase's duration, and then leaves its finally
\* block: none polls for ever.
C15_WorkersExit == \A w \in Workers : Alive(w) ~> Ended(w)

\* one worker has left its loop on the stop flag and another on the time
C15_Witness ==
  \E w, v \in Workers :
    /\ worker[w] = "stopped"
    /\ worker[v] = "elapsed"

\* where the threaded shape is in the life cycle Idle, Running, Stopping, as
\* far as its fields tell: Stopping inside stop_phases; Running from the
\* clear() of start_phases until stop_phases is called; Idle otherwise
Life ==
  IF InStopPhases THEN "Stopping"
  ELSE IF main.at # "idle" \/ (starts > 0 /\ ~stop_event) THEN "Running"
  ELSE "Idle"

\* C16: the threaded shape moves only from Idle to Running (start_phases),
\* from Running to Stopping (stop_phases) and from Stopping to Idle, the
\* workers having ended by then; a stop_phases while Idle changes nothing.
C16_Lifecycle ==
  [][/\ Life = "Idle" => Life' \in {"Idle", "Running"}
     /\ Life = "Running" => Life' \in {"Running", "Stopping"}
     /\ Life = "Stopping" => Life' \in {"Stopping", "Idle"}
     /\ (Life = "Stopping" /\ Life' = "Idle") =>
          \A w \in Workers : worker'[w] \in {"unborn", "done", "ValueError"}
     /\ (Life = "Idle" /\ main'.at = "copy") => UNCHANGED runner_vars]_vars

\* C17: the active list is read and written only by a thread that holds
\* _lock.  While a worker holds _lock in its finally block, no other thread
\* changes the list, and neither stop_phases takes its copy of the list nor
\* one of its helper threads tests the list for an id.
C17_ActiveSetUnderLock ==
  [][lock # NoThread =>
       /\ active_threads' # active_threads => worker'[lock] # worker[lock]
       /\ ~(helper = "test" /\ helper' # "test")
       /\ ~(main.at = "copy" /\ main'.at # "copy")]_vars

\* C18: every item a worker puts on the queue at elapsed time t is the pair
\* the synchronous tick returns for the same phases at run time t.
C18_PushIsTickValue ==
  [][\A w \in Workers :
       /\ (worker[w] = "block" /\ worker'[w] = "put")
            => item' = Some(tick_value(phases, Elapsed))
       /\ (worker[w] = "put" /\ worker'[w] = "sleep")
            => thread_queue'[Len(thread_queue')] = item[1]]_vars

\* C19: on a shape whose start_phases has never been called, tick does not
\* return: each call ends with StateError raised.
C19_TickBeforeStartFails ==
  (built /\ starts = 0) => ~ENABLED (BaseLoadShape_tick /\ raised' # "StateError")

\* C20: a call of ramp_up, stress_ramp or steady_users with a duration of
\* zero or less raises ConfigurationError, appends no phase and leaves the
\* cursor current_time where it was.
C20_NonPositiveDurationRejected ==
  [][\A d \in Durations : \A n \in Users :
       (d <= 0 /\ (\/ ramp_up(n, d)
                   \/ steady_users(n, d)
                   \/ \E f \in Users : stress_ramp(f, n, d)))
         => /\ raised' = "ConfigurationError"
            /\ phases' = phases
            /\ current_time' = current_time]_vars

(***************************************************************************)
(* Properties of LoadProfileFactory and of Phase.user_count_at.            *)
(***************************************************************************)
BuilderCalls == {"spike", "ramp_up", "steady_users", "stress_ramp", "build"}

\* C21: once build has returned, every further call of spike, ramp_up,
\* steady_users, stress_ramp or build on the same factory raises StateError
\* and appends nothing.
C21_BuildInvalidates ==
  [][(built /\ called' \in BuilderCalls)
       => (raised' = "StateError" /\ phases' = phases)]_vars

\* C22: the list build has returned keeps its length, its order and every
\* field of every phase under every later step.
C22_BuiltSequenceFrozen == [][built => phases' = phases]_vars

\* C23: a builder call that is handed a negative user count raises
\* ConfigurationError and appends nothing, and no tick returns a negative
\* count.
C23_NegativeUsersRejected ==
  [][/\ \A n \in Users : \A m \in Users : \A d \in Durations :
          ((n < 0 \/ m < 0)
             /\ (\/ (n = m /\ spike(n))
                 \/ (n = m /\ ramp_up(n, d))
                 \/ (n = m /\ steady_users(n, d))
                 \/ stress_ramp(n, m, d)))
            => (raised' = "ConfigurationError" /\ phases' = phases)
     /\ (called' = "tick" /\ result' # None) => result'[1] >= 0]_vars

\* the phase appended last, and the phases before it
LastPhaseOf(ps) == ps[Len(ps)]
Front(ps) == SubSeq(ps, 1, Len(ps) - 1)

\* C24: ramp_up(to, duration), for every duration the quotient is defined
\* for, appends one phase: it starts at the cursor, lasts duration, goes from
\* the user_end of the phase appended before it (0 when there is none) to
\* `to`, and its spawn_rate is (to - from) / duration for that same from.
C24_RampUpChains ==
  [][\A to \in Users : \A d \in Durations \ {0} :
       (called' = "ramp_up" /\ ramp_up(to, d)) =>
         LET from == IF phases # <<>> THEN LastPhaseOf(phases).user_end ELSE 0
             p    == LastPhaseOf(phases')
         IN  /\ raised' = "none"
             /\ Len(phases') = Len(phases) + 1
             /\ Front(phases') = phases
             /\ p.start_time = current_time
             /\ p.duration = FromInt(d)
             /\ p.user_start = from
             /\ p.user_end = to
             /\ p.spawn_rate = FDiv(FromInt(to - from), FromInt(d))]_vars

\* a ramp from the 1 user a spike ended at down to 0 users
C24_Witness ==
  /\ called = "ramp_up"
  /\ raised = "none"
  /\ Len(phases) = 2
  /\ phases[1].user_end = 1
  /\ phases[2].user_start = 1
  /\ phases[2].user_end = 0
  /\ phases[2].start_time = FTenth

\* C25: spike(n) appends one phase that starts at the cursor, lasts 0.1, has
\* user_start = user_end = n and spawn_rate n, and moves the cursor on by 0.1.
C25_Spike ==
  [][\A n \in Users :
       (called' = "spike" /\ spike(n)) =>
         LET p == LastPhaseOf(phases')
         IN  /\ raised' = "none"
             /\ Len(phases') = Len(phases) + 1
             /\ Front(phases') = phases
             /\ p.start_time = current_time
             /\ p.duration = FTenth
             /\ p.user_start = n
             /\ p.user_end = n
             /\ p.spawn_rate = FromInt(n)
             /\ current_time' = FAdd(current_time, FTenth)]_vars

\* a spike to 0 users appended after a phase of 4 s that ended at 1 user
C25_Witness ==
  /\ called = "spike"
  /\ Len(phases) = 2
  /\ phases[1].duration = FromInt(LongDuration)
  /\ phases[1].user_end = 1
  /\ phases[2].user_start = 0
  /\ phases[2].start_time = FromInt(LongDuration)
  /\ current_time = FAdd(FromInt(LongDuration), FTenth)

\* C26: steady_users(n, duration) appends one phase with user_start =
\* user_end = n and spawn_rate 1, for every n and after every earlier phase,
\* and moves the cursor on by duration.
C26_SteadyUsers ==
  [][\A n \in Users : \A d \in Durations :
       (called' = "steady_users" /\ steady_users(n, d)) =>
         LET p == LastPhaseOf(phases')
         IN  /\ raised' = "none"
             /\ Len(phases') = Len(phases) + 1
             /\ Front(phases') = phases
             /\ p.start_time = current_time
             /\ p.duration = FromInt(d)
             /\ p.user_start = n
             /\ p.user_end = n
             /\ p.spawn_rate = FromInt(1)
             /\ current_time' = FAdd(current_time, FromInt(d))]_vars

\* 0 users held for 4 s after a spike to 1 user
C26_Witness ==
  /\ called = "steady_users"
  /\ Len(phases) = 2
  /\ phases[1].user_end = 1
  /\ phases[1].spawn_rate = FromInt(1)
  /\ phases[2].user_start = 0
  /\ phases[2].user_end = 0
  /\ phases[2].spawn_rate = FromInt(1)
  /\ current_time = FAdd(FTenth, FromInt(LongDuration))

\* C27: stress_ramp(from, to, duration), for every duration the quotient is
\* defined for, appends one phase that goes from the given `from` to `to`,
\* whatever count the phase before it ended at, with spawn_rate
\* (to - from) / duration.
C27_StressRampExplicit ==
  [][\A f \in Users : \A to \in Users : \A d \in Durations \ {0} :
       (called' = "stress_ramp" /\ stress_ramp(f, to, d)) =>
         LET p == LastPhaseOf(phases')
         IN  /\ raised' = "none"
             /\ Len(phases') = Len(phases) + 1
             /\ Front(phases') = phases
             /\ p.start_time = current_time
             /\ p.duration = FromInt(d)
             /\ p.user_start = f
             /\ p.user_end = to
             /\ p.spawn_rate = FDiv(FromInt(to - f), FromInt(d))]_vars

\* a stress ramp from 0 to 1 users after a phase that ended at 1 user
C27_Witness ==
  /\ called = "stress_ramp"
  /\ raised = "none"
  /\ Len(phases) = 2
  /\ phases[1].user_end = 1
  /\ phases[2].user_start = 0
  /\ phases[2].user_end = 1
  /\ phases[2].spawn_rate = FDiv(FromInt(1), FromInt(LongDuration))

\* C28: for a phase whose duration is 0, user_count_at(start_time) is
\* user_end, not user_start, and user_count_at(t) is None for every other t;
\* tick on a list of that one phase answers accordingly.
C28_InstantPhase ==
  phases # <<>> /\ phases[1].duration = FZero =>
    /\ called = "user_count_at" =>
         result = IF run_time = phases[1].start_time
                  THEN Some(phases[1].user_end) ELSE None
    /\ (called = "tick" /\ Len(phases) = 1) =>
         result = IF run_time = phases[1].start_time
                  THEN <<phases[1].user_end, phases[1].spawn_rate>> ELSE None

\* a phase without duration that starts later than 0 and ends at another
\* count than it starts at was asked at its start_time
C28_Witness ==
  /\ called = "user_count_at"
  /\ phases[1].duration = FZero
  /\ phases[1].start_time # FZero
  /\ phases[1].user_start # phases[1].user_end
  /\ run_time = phases[1].start_time
  /\ result = Some(phases[1].user_end)

\* t lies in the window of phase p: user_count_at(t) is defined
InWindow(p, t) == user_count_at(p, t) # None

\* C29 as claimed: no time lies in the windows of two different phases of a
\* list the builder made; at every time tick is asked for, at most one phase
\* is defined.
C29_NoOverlap ==
  called = "tick" =>
    \A i \in 1..Len(phases) : \A j \in 1..Len(phases) :
      (InWindow(phases[i], run_time) /\ InWindow(phases[j], run_time)) => i = j

\* C29 as the code has it: in a list the builder made with positive
\* durations, a time lies in the windows of two different phases only when
\* the two are neighbours and the time is the instant where the earlier one
\* ends and the later one starts.
C29_OverlapOnlyAtBoundary ==
  (called = "tick" /\ \A k \in 1..Len(phases) : FGt(phases[k].duration, FZero)) =>
    \A i \in 1..Len(phases) : \A j \in (i + 1)..Len(phases) :
      (InWindow(phases[i], run_time) /\ InWindow(phases[j], run_time))
        => /\ j = i + 1
           /\ run_time = EndTime(phases[i])
           /\ run_time = phases[j].start_time

\* tick was asked at the instant the ramp ends and the steady phase starts,
\* and both phases are defined there
C29_Witness ==
  /\ called = "tick"
  /\ Len(phases) = ChainLength
  /\ run_time = EndTime(phases[2])
  /\ InWindow(phases[2], run_time)
  /\ InWindow(phases[3], run_time)
  /\ ~InWindow(phases[1], run_time)
  /\ ~InWindow(phases[4], run_time)

\* C30: the synchronous tick is a function of the run time and the list of
\* phases alone.  Whatever calls came before it, a tick at run time t returns
\* tick_value(phases, t), and it changes neither the list, nor the factory, nor
\* any field of the threaded shape.
C30_TickIsPure ==
  [][called' = "tick" =>
       /\ result' = tick_value(phases, run_time')
       /\ UNCHANGED <<phases, current_time, built, raised, config>>
       /\ UNCHANGED runner_vars]_vars

\* tick at the start of the third phase of a full chain returned a pair
C30_Witness ==
  /\ called = "tick"
  /\ Len(phases) = ChainLength
  /\ run_time = phases[3].start_time
  /\ FGt(run_time, FTenth)
  /\ result # None
  /\ result[2] = phases[2].spawn_rate

(***************************************************************************)
(* Properties of the chain of CustomLoadShape's class constants.           *)
(***************************************************************************)
\* the four phases the claim names, with 0.1, 10.1, 15.1 as Python reads them
ExpectedChain ==
  <<Phase(FZero, FTenth, 10, 10, FromInt(10)),
    Phase(Time(1), FromInt(10), 10, 20, FromInt(1)),
    Phase(Time(101), FromInt(5), 5, 5, FromInt(1)),
    Phase(Time(151), FromInt(10), 5, 15, FromInt(1))>>
ExpectedEnds == <<Time(1), Time(101), Time(151), Time(251)>>

\* C31: spike(10), ramp_up(20, 10), steady_users(5, 5), stress_ramp(5, 15, 10)
\* builds four phases with the windows [0, 0.1], [0.1, 10.1], [10.1, 15.1],
\* [15.1, 25.1] and the user ranges 10..10, 10..20, 5..5, 5..15, and tick at
\* run time 5.1 on them returns (15, 1.0).
C31_ClassChain ==
  (config = ClassConfig /\ Len(phases) = ChainLength) =>
    /\ phases = ExpectedChain
    /\ \A i \in 1..ChainLength : EndTime(phases[i]) = ExpectedEnds[i]
    /\ (called = "tick" /\ run_time = MidRamp) => result = <<15, FromInt(1)>>

\* the chain of the class constants was ticked at 5.1 s
C31_Witness ==
  /\ config = ClassConfig
  /\ Len(phases) = ChainLength
  /\ built
  /\ called = "tick"
  /\ run_time = MidRamp
  /\ result = <<15, FromInt(1)>>

(***************************************************************************)
(* Properties of ResponseValidator and of RequestBuilder                   *)
(***************************************************************************)
\* validate() or assert_valid() has just returned its results
Validated ==
  /\ called \in {"validate", "assert_valid"}
  /\ raised \in {"none", "AssertionError"}
  /\ Len(results) = Len(validations)

\* the value a JSON body holds at a path, None where the path is absent
json_path_lookup(body, path) == body.at[path]

\* C32: a JSON-path expectation passes in validate() exactly when the value
\* at its path in the response's JSON body equals the expected value; it
\* fails when the body holds another value there and when the path is absent
\* while the expected value is not None.
C32_JsonPathCompares ==
  (Validated /\ response.body.is_json) =>
    \A i \in 1..Len(validations) :
      validations[i].type = "json_path" =>
        (results[i].is_valid <=>
           json_path_lookup(response.body, validations[i].key) = validations[i].expected)

\* C33: the common expectation made in on_start is evaluated on every
\* response, whatever reset() and expect_* calls the tasks made since.
C33_CommonValidationKept ==
  Validated =>
    \E i \in 1..Len(results) :
      /\ results[i].validation_type = "header"
      /\ validations[i].key = "Content-Type"
      /\ results[i].expected = Some("application/json")

\* a call of the builder other than reset() has just returned
BuilderStep == called' \notin {"none", "on_start", "RequestBuilder.reset"}

\* every key of dict old is a key of dict new
KeysKept(old, new) == \A n \in DOMAIN old : old[n] # None => new[n] # None

\* C39: execute() leaves the builder's configuration unchanged and sends the
\* headers and params the builder holds; with_headers and with_params merge
\* into what is set, a key not given again keeping its value; so a header or
\* param once given stays set, and is sent by every later execute(), until
\* reset() is called.
C39_ConfigurationKept ==
  [][/\ called' = "execute" =>
          /\ builder' = builder
          /\ raised' = "none" =>
               /\ sent' # None
               /\ sent'[1].headers = builder.headers
               /\ sent'[1].params = builder.params
     /\ called' = "with_headers" =>
          /\ KeysKept(builder.headers, builder'.headers)
          /\ \E h \in HeaderDicts :
               \A n \in RequestHeaderNames :
                 builder'.headers[n] = IF h[n] # None THEN h[n] ELSE builder.headers[n]
     /\ called' = "with_params" =>
          /\ KeysKept(builder.params, builder'.params)
          /\ \E p \in ParamDicts :
               \A n \in ParamNames :
                 builder'.params[n] = IF p[n] # None THEN p[n] ELSE builder.params[n]
     /\ BuilderStep =>
          /\ KeysKept(builder.headers, builder'.headers)
          /\ KeysKept(builder.params, builder'.params)
    ]_vars

\* a request sent with the Accept header of an earlier with_headers call, the
\* Authorization header of a later one and the params
C39_Witness ==
  /\ called = "execute"
  /\ raised = "none"
  /\ sent # None
  /\ sent[1].headers["Accept"] = Some("application/json")
  /\ sent[1].headers["Authorization"] = Some("Bearer token")
  /\ sent[1].params["page"] = Some("1")
  /\ sent[1].url = "https://dummyjson.com/auth/me"
  /\ builder.headers = sent[1].headers

(***************************************************************************)
(* Properties of the worker threads across start_phases and stop_phases    *)
(***************************************************************************)
\* the worker has left _execute_phase, its finally block included
Exited(w) == worker[w] \in {"done", "ValueError"}

\* C34: once start_phases has returned and every worker it started has
\* exited, _active_threads is empty, however the exit of a worker interleaves
\* with start_phases appending its id.
C34_NoFinishedIdLeft ==
  (starts = 1 /\ main.at = "idle" /\ helper = "none"
     /\ \A i \in ThreadIds : Exited(<<1, i>>))
    => active_threads = <<>>

\* C35: after stop_phases followed by a new start_phases only the workers of
\* the latest start are alive and pushing: no worker of an earlier start
\* passes the test of the stop flag once the shape was started again.
C35_OldWorkersEnd ==
  [][\A w \in AllWorkers :
       (w[1] < starts /\ worker[w] = "test") => worker'[w] # "poll"]_vars

(***************************************************************************)
(* Properties of the queue between the workers and tick                    *)
(***************************************************************************)
\* C36: the queue neither loses nor duplicates items.  It changes only by a
\* worker's poll putting one item at its end or by tick taking the oldest
\* item out and returning it; tick returns an item only by taking it out of
\* the queue, so each item returned was pushed by one poll, is returned once,
\* and stays queued until then.
C36_QueueKeepsItems ==
  [][/\ thread_queue' # thread_queue =>
          \/ /\ \E w \in Workers : worker[w] = "put" /\ worker'[w] = "sleep"
             /\ Len(thread_queue') = Len(thread_queue) + 1
             /\ SubSeq(thread_queue', 1, Len(thread_queue)) = thread_queue
             /\ result' = result
          \/ /\ thread_queue # <<>>
             /\ result' = Head(thread_queue)
             /\ thread_queue' = Tail(thread_queue)
             /\ worker' = worker
     /\ result' # result =>
          IF thread_queue = <<>>
          THEN result' = None /\ thread_queue' = <<>>
          ELSE result' = Head(thread_queue) /\ thread_queue' = Tail(thread_queue)
     /\ (result' # None /\ thread_queue' = thread_queue) => result' = result
    ]_vars

\* tick has returned an item while a later one is still queued and a worker
\* is about to push
C36_Witness ==
  /\ result # None
  /\ thread_queue # <<>>
  /\ \E w \in Workers : worker[w] = "poll"

(***************************************************************************)
(* Properties of the built sequence as a whole                             *)
(***************************************************************************)
PositiveDurations(ps) == \A i \in 1..Len(ps) : FGt(ps[i].duration, FZero)

\* C37: for a sequence the builder made with positive durations only, tick(t)
\* is defined at every t from 0 to the builder's final cursor: there is no
\* gap between the phases.
C37_NoGap ==
  (/\ called = "tick"
   /\ phases # <<>>
   /\ PositiveDurations(phases)
   /\ ~FLt(run_time, FZero)
   /\ ~FGt(run_time, current_time))
    => result # None

\* tick at the instant where the first of two phases ends and the second
\* starts, and at the final cursor
C37_Witness ==
  /\ called = "tick"
  /\ Len(phases) = 2
  /\ PositiveDurations(phases)
  /\ run_time \in {phases[2].start_time, current_time}
  /\ FGt(run_time, FTenth)
  /\ result # None

\* C38: for a phase with user_start >= 0 and user_end >= 0 and t inside its
\* window, user_count_at(t) lies between the smaller and the larger of
\* user_start and user_end, both included.
C38_CountInRange ==
  (/\ called = "user_count_at"
   /\ phases[1].user_start >= 0 /\ phases[1].user_end >= 0
   /\ InWindow(phases[1], run_time))
    => LET lo == IF phases[1].user_start <= phases[1].user_end
                 THEN phases[1].user_start ELSE phases[1].user_end
           hi == IF phases[1].user_start <= phases[1].user_end
                 THEN phases[1].user_end ELSE phases[1].user_start
       IN  /\ result # None
           /\ lo <= result[1]
           /\ result[1] <= hi

====
